---------------------------- MODULE Spec2Model ----------------------------
(***************************************************************************)
(* Model of the karting backend's reconciliation layer                     *)
(* (src/src/backend/api.py, src/src/backend/models.py): the Circuit and    *)
(* Course tables and the two CSV upsert handlers, one step per CSV row.    *)
(*                                                                         *)
(* CSV cells are text.  pandas' read_csv turns a blank cell into NaN, the  *)
(* handlers' preparation block coerces the numeric and date columns, and   *)
(* SQLite stores a NaN bound to a statement as NULL.                       *)
(***************************************************************************)
EXTENDS Integers, Sequences, FiniteSets, TLC

VARIABLES
    circuits,          \* rows of table circuit
    courses,           \* rows of table course
    pc,                \* "idle": no request; "rows": in the row loop; "done": answered
    op,                \* handler of the current/last request
    file,              \* the uploaded file of the current/last request
    index,             \* number of rows of df already iterated
    updated_count,
    created_count,
    circuits_uniques,  \* per-request cache of upsert_courses_csv
    response,          \* what the last request returned to the caller
    printed,           \* source lines print()ed by the except blocks of this request
    pre,               \* history: the tables when the request started
    first,             \* history: counts of the run that a re-upload repeats
    sessions,          \* the requests running side by side, each with its own session
    call               \* a function of the analysis layer applied to an input

vars == <<circuits, courses, pc, op, file, index, updated_count, created_count,
          circuits_uniques, response, printed, pre, first, sessions, call>>

-----------------------------------------------------------------------------
(* Bounds *)

\* Largest number of data rows of an uploaded CSV.
MaxRows == 2

\* Largest Circuit table to which a Circuit is still added directly.
MaxCircuits == 3

\* Number of data rows of the ten-row courses files.
TenRows == 10

-----------------------------------------------------------------------------
(* Values *)

NaN == "NaN"        \* pandas' missing value (float nan); NULL once bound by sqlite3
NaT == "NaT"        \* pandas' missing date
None == <<>>        \* Optional[int]: absent
Some(n) == <<n>>    \* Optional[int]: present

\* int(text) for the integer texts the inputs use.
IntText ==
    ("-1" :> -1) @@ ("0" :> 0) @@ ("1" :> 1) @@ ("2" :> 2) @@ ("3" :> 3) @@
    ("4" :> 4) @@ ("5" :> 5) @@ ("6" :> 6) @@ ("7" :> 7) @@ ("8" :> 8) @@
    ("9" :> 9) @@ ("10" :> 10) @@ ("11" :> 11) @@ ("12" :> 12)

\* str(n) for 1..12.
TextOfInt == <<"1", "2", "3", "4", "5", "6", "7", "8", "9", "10", "11", "12">>

\* float(text), in tenths.
FloatText == ("0.3" :> 3) @@ ("45.5" :> 455)

\* strptime(text, '%d/%m/%Y').date() for the dates the inputs use.
DateText == ("04/11/2025" :> "2025-11-04") @@ ("05/11/2025" :> "2025-11-05")

\* pd.read_csv: a blank cell is read as NaN.
ReadCell(cell) == IF cell = "" THEN NaN ELSE cell

\* file.filename as its characters; str.endswith.
EndsWith(s, suffix) ==
    /\ Len(s) >= Len(suffix)
    /\ SubSeq(s, Len(s) - Len(suffix) + 1, Len(s)) = suffix

CsvSuffix == <<".", "c", "s", "v">>

GoodName == <<"k", ".", "c", "s", "v">>
BadNames == { <<"k", ".", "t", "x", "t">>, <<"k", "c", "s", "v">> }

-----------------------------------------------------------------------------
(* Inputs: CSV rows as decoded cells, one record per data row *)

BaseCourseRow ==
    [Section |-> "1", Pilote |-> "Ann", Date |-> "04/11/2025",
     Nom_Circuit |-> "Moissy", Configuration_Piste |-> "Court",
     Kart |-> "7", Note |-> "3", Meilleur_Tour |-> "1:30.500",
     Ecart |-> "0.500", Tours |-> "12", Humidite |-> "45.5"]

\* Rows of a courses CSV: two rows with the same key on different circuits, a
\* row of another pilot, a blank Pilote, a date not in DD/MM/YYYY, and a
\* Section that is not a number.
CourseRows ==
    { BaseCourseRow,
      [BaseCourseRow EXCEPT !.Configuration_Piste = "Long",
                            !.Meilleur_Tour = "45.250", !.Kart = ""],
      [BaseCourseRow EXCEPT !.Pilote = "Bob", !.Configuration_Piste = "Long"],
      [BaseCourseRow EXCEPT !.Pilote = "", !.Configuration_Piste = "Long"],
      [BaseCourseRow EXCEPT !.Date = "2025-11-04"],
      [BaseCourseRow EXCEPT !.Section = "x"] }

BaseCircuitRow ==
    [Nom_Circuit |-> "Moissy", Configuration_Piste |-> "Court",
     Longueur |-> "830m", Adresse |-> "Moissy-Cramayel"]

\* Rows of a circuits CSV (columns Circuit, Piste, Longueur, Adresse).
CircuitRows ==
    { BaseCircuitRow,
      [BaseCircuitRow EXCEPT !.Longueur = "1000m"],
      [BaseCircuitRow EXCEPT !.Longueur = ""] }

SeqsUpTo(S, n) == UNION { [1..k -> S] : k \in 0..n }

\* An upload: the file name, what its bytes are, and its data rows.
Files(rowSet) ==
    [filename : {GoodName}, content : {"csv"}, rows : SeqsUpTo(rowSet, MaxRows)]
    \cup [filename : BadNames, content : {"csv"}, rows : SeqsUpTo(rowSet, 1)]
    \cup [filename : {GoodName}, content : {"empty", "not_utf8"}, rows : {<<>>}]

-----------------------------------------------------------------------------
(* upsert_courses_csv, lines 249-279: reading and coercing the table *)

\* df['Kart'].fillna(-1).astype(int).replace({-1: None})
KartOf(cell) ==
    LET v == IF cell = "" THEN -1 ELSE IntText[cell]
    IN  IF v = -1 THEN None ELSE Some(v)

\* df[col].fillna(0).astype(int)
IntOf(cell) == IF cell = "" THEN 0 ELSE IntText[cell]

\* df['Humidite'].fillna(0.0).astype(float)
FloatOf(cell) == IF cell = "" THEN 0 ELSE FloatText[cell]

\* pd.to_datetime(df['Date'], format='%d/%m/%Y', errors='coerce').dt.date
DateOf(cell) == IF cell \in DOMAIN DateText THEN DateText[cell] ELSE NaT

\* astype(int) / astype(float) raise on a text that is not a number.
IntCoercible(cell) == cell = "" \/ cell \in DOMAIN IntText
FloatCoercible(cell) == cell = "" \/ cell \in DOMAIN FloatText

CourseRowCoercible(r) ==
    /\ IntCoercible(r.Kart)
    /\ FloatCoercible(r.Humidite)
    /\ IntCoercible(r.Section)
    /\ IntCoercible(r.Note)

\* Line 251: col.strip() of the header names in use.
strip(col) ==
    CASE col = " Circuit " -> "Circuit"
      [] col = " circuit " -> "circuit"
      [] col = " Piste " -> "Piste"
      [] OTHER -> col

\* Lines 252-256: df.rename(columns={...}); a name that is no key of the
\* dictionary stays as it is.
rename(col) ==
    CASE col = "Meilleur Tour" -> "Meilleur_Tour"
      [] col = "circuit" -> "Nom_Circuit"
      [] col = "Piste" -> "Configuration_Piste"
      [] OTHER -> col

\* The columns the preparation block names; the others are only read.
PreparedColumns ==
    {"Section", "Pilote", "Date", "Kart", "Note", "Meilleur_Tour", "Ecart",
     "Tours", "Humidite"}

\* Lines 250-275: a row of df, its columns stripped and renamed, its numeric
\* and date cells coerced.
CoerceCourseRow(r) ==
    LET others == { k \in DOMAIN r : rename(strip(k)) \notin PreparedColumns }
    IN  [Section |-> IntOf(r.Section), Pilote |-> ReadCell(r.Pilote),
         Date |-> DateOf(r.Date),
         Kart |-> KartOf(r.Kart), Note |-> IntOf(r.Note),
         Meilleur_Tour |-> ReadCell(r.Meilleur_Tour),
         Ecart |-> ReadCell(r.Ecart), Tours |-> ReadCell(r.Tours),
         Humidite |-> FloatOf(r.Humidite)]
        @@ [k \in { rename(strip(x)) : x \in others } |->
               ReadCell(r[CHOOSE x \in others : rename(strip(x)) = k])]

\* upsert_circuits_csv, lines 105-108: the table is read and renamed, not
\* coerced. A column beyond the four named in the docstring stays in the table;
\* an id column of whole numbers is read as integers.
ReadCircuitRow(r) ==
    LET named == [Nom_Circuit |-> ReadCell(r.Nom_Circuit),
                  Configuration_Piste |-> ReadCell(r.Configuration_Piste),
                  Longueur |-> ReadCell(r.Longueur),
                  Adresse |-> ReadCell(r.Adresse)]
    IN  IF "id" \in DOMAIN r THEN named @@ [id |-> IntText[r.id]] ELSE named

\* Variant: the suffix test written endswith('csv'), without the dot.
StructuralStatusNoDot(o, f) ==
    IF ~EndsWith(f.filename, <<"c", "s", "v">>) THEN 400
    ELSE IF f.content = "not_utf8" THEN 500
    ELSE IF f.content = "empty" THEN 422
    ELSE IF o = "courses" /\ \E i \in 1..Len(f.rows) : ~CourseRowCoercible(f.rows[i])
         THEN 422
    ELSE 200

\* The status the handler answers before the row loop: 400 for a file name not
\* ending in .csv, 500 for bytes that decode() rejects (outside the try), 422
\* for a table pandas cannot read or the preparation block cannot coerce, and
\* 200 when the loop is entered.
StructuralStatus(o, f) ==
    IF ~EndsWith(f.filename, CsvSuffix) THEN 400
    ELSE IF f.content = "not_utf8" THEN 500
    ELSE IF f.content = "empty" THEN 422
    ELSE IF o = "courses" /\ \E i \in 1..Len(f.rows) : ~CourseRowCoercible(f.rows[i])
         THEN 422
    ELSE 200

\* df: the table the row loop iterates (index i of pandas is position i + 1).
Df(o, f) ==
    IF StructuralStatus(o, f) # 200 THEN <<>>
    ELSE IF o = "courses" THEN [i \in 1..Len(f.rows) |-> CoerceCourseRow(f.rows[i])]
    ELSE [i \in 1..Len(f.rows) |-> ReadCircuitRow(f.rows[i])]

-----------------------------------------------------------------------------
(* The store: models.py's tables behind a SQLite session *)

Max(S) == CHOOSE x \in S : \A y \in S : y <= x

\* The id SQLite gives an inserted row: one more than the largest in the table.
NextId(table) == IF table = {} THEN 1 ELSE Max({ x.id : x \in table }) + 1

\* Result.first(): the row SQLite returns first, the one with the least id.
First(rows) == CHOOSE x \in rows : \A y \in rows : x.id <= y.id

\* column == value in a WHERE clause: never true of NULL.
SqlEq(a, b) == a # NaN /\ b # NaN /\ a = b

\* class Circuit: the four text columns are NOT NULL; the __table_args__
\* dictionary declares no constraint that SQLAlchemy knows, so the table has
\* no UNIQUE constraint on (Nom_Circuit, Configuration_Piste).
CircuitInsertable(table, c) ==
    /\ c.Nom_Circuit # NaN
    /\ c.Configuration_Piste # NaN
    /\ c.Longueur # NaN
    /\ c.Adresse # NaN

\* id is the primary key of its table: no two rows hold the same id.
PrimaryKeyFree(table, id) == \A x \in table : x.id # id

\* class Course: every column but Kart is NOT NULL.
CourseInsertable(table, c) ==
    /\ c.Pilote # NaN
    /\ c.Date # NaT
    /\ c.Meilleur_Tour # NaN

\* Variant: the two columns compared with each other's value.
SelectCircuitSwapped(table, nom, piste) ==
    { c \in table : SqlEq(c.Nom_Circuit, piste) /\ SqlEq(c.Configuration_Piste, nom) }

\* select(Circuit).where(Nom_Circuit == nom, Configuration_Piste == piste)
SelectCircuit(table, nom, piste) ==
    { c \in table : SqlEq(c.Nom_Circuit, nom) /\ SqlEq(c.Configuration_Piste, piste) }

\* Variant: Date compared with NULL, which no row equals.
SelectCourseDateNull(table, section, pilote, date_course) ==
    { c \in table : /\ c.Section = section
                    /\ SqlEq(c.Pilote, pilote)
                    /\ SqlEq(c.Date, NaN) }

\* select(Course).where(Section == section, Pilote == pilote, Date == date_course)
SelectCourse(table, section, pilote, date_course) ==
    { c \in table : /\ c.Section = section
                    /\ SqlEq(c.Pilote, pilote)
                    /\ c.Date = date_course }

-----------------------------------------------------------------------------
(* upsert_courses_csv, lines 285-362: one iteration of the row loop *)

\* Lines 306-310: the circuit created for a row whose circuit is not stored.
PlaceholderCircuit(table, row) ==
    [id |-> NextId(table), Nom_Circuit |-> row.Nom_Circuit,
     Configuration_Piste |-> row.Configuration_Piste,
     Longueur |-> "N/A", Adresse |-> "N/A"]

\* Lines 292-315: the row's circuit from the cache, else from the table, else
\* created and committed at once.  raised: the commit of line 312 failed.
ResolveCircuit(table, cache, row) ==
    LET key   == <<row.Nom_Circuit, row.Configuration_Piste>>
        hit   == { e \in cache : e.key = key }
        found == SelectCircuit(table, row.Nom_Circuit, row.Configuration_Piste)
        fresh == PlaceholderCircuit(table, row)
    IN  IF hit # {}
        THEN [raised |-> FALSE, id |-> (CHOOSE e \in hit : TRUE).id,
              circuits |-> table, cache |-> cache]
        ELSE IF found # {}
        THEN [raised |-> FALSE, id |-> First(found).id, circuits |-> table,
              cache |-> cache \cup {[key |-> key, id |-> First(found).id]}]
        ELSE IF CircuitInsertable(table, fresh)
        THEN [raised |-> FALSE, id |-> fresh.id, circuits |-> table \cup {fresh},
              cache |-> cache \cup {[key |-> key, id |-> fresh.id]}]
        ELSE [raised |-> TRUE, id |-> 0, circuits |-> table, cache |-> cache]

\* Lines 326-335: course_data, the row as a dictionary with circuit_id added
\* and the two circuit columns deleted.
CourseData(row, circuit_id) ==
    [Section |-> row.Section, Pilote |-> row.Pilote, Date |-> row.Date,
     Kart |-> row.Kart, Note |-> row.Note, Meilleur_Tour |-> row.Meilleur_Tour,
     Ecart |-> row.Ecart, Tours |-> row.Tours, Humidite |-> row.Humidite,
     circuit_id |-> circuit_id]

\* Variant: the update also copies circuit_id.
UpdatedCourseRepoint(existing, course_data) ==
    [existing EXCEPT !.Section = course_data.Section,
                     !.Pilote = course_data.Pilote,
                     !.Date = course_data.Date,
                     !.Kart = course_data.Kart,
                     !.Note = course_data.Note,
                     !.Meilleur_Tour = course_data.Meilleur_Tour,
                     !.Humidite = course_data.Humidite,
                     !.circuit_id = course_data.circuit_id]

\* Lines 337-342: the update copies every Course field of course_data but id
\* and circuit_id (Ecart and Tours are no fields of Course).
UpdatedCourse(existing, course_data) ==
    [existing EXCEPT !.Section = course_data.Section,
                     !.Pilote = course_data.Pilote,
                     !.Date = course_data.Date,
                     !.Kart = course_data.Kart,
                     !.Note = course_data.Note,
                     !.Meilleur_Tour = course_data.Meilleur_Tour,
                     !.Humidite = course_data.Humidite]

\* Line 349: Course(**course_data); the keys that are no fields are dropped.
NewCourse(table, course_data) ==
    [id |-> NextId(table), Section |-> course_data.Section,
     Pilote |-> course_data.Pilote, Date |-> course_data.Date,
     Kart |-> course_data.Kart, Note |-> course_data.Note,
     Meilleur_Tour |-> course_data.Meilleur_Tour,
     Humidite |-> course_data.Humidite,
     circuit_id |-> course_data.circuit_id]

\* Variant: the lookup reads the table as it was when the call began.
ExistingCourseBeforeCall(table, row) ==
    SelectCourse(pre.courses, row.Section, row.Pilote, row.Date)

\* Variant: the lookup by (Section, Date) only.
ExistingCourseNoPilote(table, row) ==
    { c \in table : c.Section = row.Section /\ c.Date = row.Date }

\* Lines 317-323: the lookup by (Section, Pilote, Date).
ExistingCourse(table, row) == SelectCourse(table, row.Section, row.Pilote, row.Date)

\* One iteration: the tables, cache and counters after it, and whether one of
\* the except blocks ran (rollback, print, continue).  The counters are
\* incremented before session.commit(); the rollback undoes the pending Course
\* only: the circuit of line 312 is already committed.
CourseIteration(circs, crs, cache, row, created, updated) ==
    LET rc       == ResolveCircuit(circs, cache, row)
        existing == ExistingCourse(crs, row)
        changed  == UpdatedCourse(First(existing), CourseData(row, rc.id))
        added    == NewCourse(crs, CourseData(row, rc.id))
    IN  IF ~({"Nom_Circuit", "Configuration_Piste"} \subseteq DOMAIN row)
        \* row['Nom_Circuit'] of line 292 is a KeyError
        THEN [raised |-> TRUE, circuits |-> circs, courses |-> crs,
              cache |-> cache, created |-> created, updated |-> updated]
        ELSE IF rc.raised
        THEN [raised |-> TRUE, circuits |-> circs, courses |-> crs,
              cache |-> cache, created |-> created, updated |-> updated]
        ELSE IF row.Date = NaT
        \* binding NaT to the Date column raises in the lookup of line 323
        THEN [raised |-> TRUE, circuits |-> rc.circuits, courses |-> crs,
              cache |-> rc.cache, created |-> created, updated |-> updated]
        ELSE IF existing # {}
        THEN IF CourseInsertable(crs, changed)
             THEN [raised |-> FALSE, circuits |-> rc.circuits,
                   courses |-> (crs \ {First(existing)}) \cup {changed},
                   cache |-> rc.cache, created |-> created, updated |-> updated + 1]
             ELSE [raised |-> TRUE, circuits |-> rc.circuits, courses |-> crs,
                   cache |-> rc.cache, created |-> created, updated |-> updated + 1]
        ELSE IF CourseInsertable(crs, added)
             THEN [raised |-> FALSE, circuits |-> rc.circuits,
                   courses |-> crs \cup {added},
                   cache |-> rc.cache, created |-> created + 1, updated |-> updated]
             ELSE [raised |-> TRUE, circuits |-> rc.circuits, courses |-> crs,
                   cache |-> rc.cache, created |-> created + 1, updated |-> updated]

-----------------------------------------------------------------------------
(* upsert_circuits_csv, lines 115-153: one iteration of the row loop *)

\* Variant: the update copies Longueur only.
UpdatedCircuitNoAdresse(existing, row) ==
    [existing EXCEPT !.Longueur = row.Longueur]

\* Lines 132-134: the update copies every column of the row that is a field
\* of Circuit, the two key fields excepted: Longueur, Adresse and, when the
\* file has that column, id.
UpdatedCircuit(existing, row) ==
    [existing EXCEPT !.Longueur = row.Longueur, !.Adresse = row.Adresse,
                     !.id = IF "id" \in DOMAIN row THEN row.id ELSE @]

\* Line 140: Circuit(**circuit_data); the id is the row's when the file has
\* that column and SQLite's otherwise.
NewCircuit(table, row) ==
    [id |-> IF "id" \in DOMAIN row THEN row.id ELSE NextId(table),
     Nom_Circuit |-> row.Nom_Circuit,
     Configuration_Piste |-> row.Configuration_Piste,
     Longueur |-> row.Longueur, Adresse |-> row.Adresse]

\* Lines 118-126: the lookup by (Nom_Circuit, Configuration_Piste).
ExistingCircuit(table, row) ==
    SelectCircuit(table, row.Nom_Circuit, row.Configuration_Piste)

CircuitIteration(circs, row, created, updated) ==
    LET existing == ExistingCircuit(circs, row)
        changed  == UpdatedCircuit(First(existing), row)
        added    == NewCircuit(circs, row)
    IN  IF existing # {}
        THEN IF /\ CircuitInsertable(circs, changed)
                /\ PrimaryKeyFree(circs \ {First(existing)}, changed.id)
             THEN [raised |-> FALSE,
                   circuits |-> (circs \ {First(existing)}) \cup {changed},
                   created |-> created, updated |-> updated + 1]
             ELSE [raised |-> TRUE, circuits |-> circs,
                   created |-> created, updated |-> updated + 1]
        ELSE IF CircuitInsertable(circs, added) /\ PrimaryKeyFree(circs, added.id)
             THEN [raised |-> FALSE, circuits |-> circs \cup {added},
                   created |-> created + 1, updated |-> updated]
             ELSE [raised |-> TRUE, circuits |-> circs,
                   created |-> created + 1, updated |-> updated]

-----------------------------------------------------------------------------
(* Natural keys *)

\* Two records (rows or entities) with the same (Section, Pilote, Date).
SameCourseKey(c, d) ==
    c.Section = d.Section /\ c.Pilote = d.Pilote /\ c.Date = d.Date

\* Two records with the same (Nom_Circuit, Configuration_Piste).
SameCircuitKey(c, d) ==
    c.Nom_Circuit = d.Nom_Circuit /\ c.Configuration_Piste = d.Configuration_Piste

-----------------------------------------------------------------------------
(* The requests *)

NoFile == [filename |-> <<>>, content |-> "none", rows |-> <<>>]
NoResponse == [status |-> 0]
NoFirst == [set |-> FALSE]
NoSessions == <<>>
NoCall == [fn |-> "none"]

\* The HTTPException raised before the loop: a status and no counts.
Rejected(st) == [status |-> st]

\* Lines 155-159 and 364-368: the body returned after the loop.
Returned(updated, created) ==
    [status |-> 200, mis_a_jour |-> updated, crees |-> created]

Init ==
    /\ circuits = {}
    /\ courses = {}
    /\ pc = "idle"
    /\ op = "none"
    /\ file = NoFile
    /\ index = 0
    /\ updated_count = 0
    /\ created_count = 0
    /\ circuits_uniques = {}
    /\ response = NoResponse
    /\ printed = <<>>
    /\ pre = [circuits |-> {}, courses |-> {}]
    /\ first = NoFirst
    /\ sessions = NoSessions
    /\ call = NoCall

\* Lines 99-113 and 243-283: the handler up to the row loop.
Begin(o, f) ==
    /\ op' = o
    /\ file' = f
    /\ index' = 0
    /\ updated_count' = 0
    /\ created_count' = 0
    /\ circuits_uniques' = {}
    /\ printed' = <<>>
    /\ pre' = [circuits |-> circuits, courses |-> courses]
    /\ IF StructuralStatus(o, f) = 200
       THEN pc' = "rows" /\ response' = NoResponse
       ELSE pc' = "done" /\ response' = Rejected(StructuralStatus(o, f))
    /\ UNCHANGED <<circuits, courses, sessions, call>>

\* PUT /courses/import
StartCourses ==
    \E f \in Files(CourseRows) :
        /\ pc = "idle"
        /\ Begin("courses", f)
        /\ first' = NoFirst

\* PUT /circuits/import
StartCircuits ==
    \E f \in Files(CircuitRows) :
        /\ pc = "idle"
        /\ Begin("circuits", f)
        /\ first' = NoFirst

\* PUT /courses/import with the file of the courses import that just returned.
\* first remembers what that first run answered and whether the table held
\* none of the file's keys when it started.
ReUpload ==
    /\ pc = "done"
    /\ op = "courses"
    /\ response.status = 200
    /\ Begin("courses", file)
    /\ first' = [set |-> TRUE, crees |-> response.crees,
                 mis_a_jour |-> response.mis_a_jour,
                 fresh |-> \A i \in 1..Len(Df(op, file)) :
                              \A c \in pre.courses :
                                 ~SameCourseKey(c, Df(op, file)[i])]

\* Lines 285-362: the loop body for the next row of df.
CoursesRow ==
    /\ pc = "rows"
    /\ op = "courses"
    /\ index < Len(Df(op, file))
    /\ LET it == CourseIteration(circuits, courses, circuits_uniques,
                                 Df(op, file)[index + 1],
                                 created_count, updated_count)
       IN  /\ circuits' = it.circuits
           /\ courses' = it.courses
           /\ circuits_uniques' = it.cache
           /\ created_count' = it.created
           /\ updated_count' = it.updated
           \* print(f"... à la ligne {index + 2}: ...")
           /\ printed' = IF it.raised THEN Append(printed, index + 2) ELSE printed
    /\ index' = index + 1
    /\ UNCHANGED <<pc, op, file, response, pre, first, sessions, call>>

\* Lines 115-153: the loop body for the next row of df.
CircuitsRow ==
    /\ pc = "rows"
    /\ op = "circuits"
    /\ index < Len(Df(op, file))
    /\ LET it == CircuitIteration(circuits, Df(op, file)[index + 1],
                                  created_count, updated_count)
       IN  /\ circuits' = it.circuits
           /\ created_count' = it.created
           /\ updated_count' = it.updated
           /\ printed' = IF it.raised THEN Append(printed, index + 2) ELSE printed
    /\ index' = index + 1
    /\ UNCHANGED <<courses, circuits_uniques, pc, op, file, response, pre, first,
                   sessions, call>>

\* Lines 155-159 and 364-368: the loop is over, the counts are returned.
Return ==
    /\ pc = "rows"
    /\ index = Len(Df(op, file))
    /\ pc' = "done"
    /\ response' = Returned(updated_count, created_count)
    /\ UNCHANGED <<circuits, courses, op, file, index, updated_count,
                   created_count, circuits_uniques, printed, pre, first,
                   sessions, call>>

\* db.py, lines 16-19: the request is over and its session is closed; what
\* stays is the tables.
Close ==
    /\ pc = "done"
    /\ pc' = "idle"
    /\ op' = "none"
    /\ file' = NoFile
    /\ index' = 0
    /\ updated_count' = 0
    /\ created_count' = 0
    /\ circuits_uniques' = {}
    /\ response' = NoResponse
    /\ printed' = <<>>
    /\ pre' = [circuits |-> circuits, courses |-> courses]
    /\ first' = NoFirst
    /\ call' = NoCall
    /\ UNCHANGED <<circuits, courses, sessions>>

Next ==
    \/ StartCourses
    \/ StartCircuits
    \/ ReUpload
    \/ CoursesRow
    \/ CircuitsRow
    \/ Return
    \/ Close

Spec == Init /\ [][Next]_vars

-----------------------------------------------------------------------------
(* The store used directly, as tests/backend/test_models.py does *)

\* The Circuit objects a caller builds: complete, with id None.
CircuitObjects ==
    { ReadCircuitRow(BaseCircuitRow),
      ReadCircuitRow([BaseCircuitRow EXCEPT !.Longueur = "1000m"]) }

\* test_models.py, lines 98-99 and 108-112: session.add(circuit) and
\* session.commit(); committed tells whether commit() returned or raised.
AddCircuit ==
    \E c \in CircuitObjects :
        /\ pc = "idle"
        /\ Cardinality(circuits) < MaxCircuits
        /\ op' = "add"
        /\ file' = [filename |-> <<>>, content |-> "object", rows |-> <<c>>]
        /\ pre' = [circuits |-> circuits, courses |-> courses]
        /\ IF CircuitInsertable(circuits, NewCircuit(circuits, c))
           THEN /\ circuits' = circuits \cup {NewCircuit(circuits, c)}
                /\ response' = [status |-> 0, committed |-> TRUE]
           ELSE /\ circuits' = circuits
                /\ response' = [status |-> 0, committed |-> FALSE]
        /\ pc' = "done"
        /\ UNCHANGED <<courses, index, updated_count, created_count,
                       circuits_uniques, printed, first, sessions, call>>

NextStore ==
    \/ AddCircuit
    \/ StartCircuits
    \/ CircuitsRow
    \/ Return
    \/ Close

\* Circuits added directly and imported from CSV, in any order.
SpecStore == Init /\ [][NextStore]_vars

-----------------------------------------------------------------------------
(* Courses files of ten rows with one bad natural-key cell *)

KeyFields == {"Pilote", "Section", "Date"}

\* Row i of the file: Section i, and at position bad the cell of the key
\* field made unusable (blank pilot, text for a number, date in ISO order).
TenRowFile(bad, field) ==
    [filename |-> GoodName, content |-> "csv",
     rows |-> [i \in 1..TenRows |->
        LET r == [BaseCourseRow EXCEPT !.Section = TextOfInt[i]]
        IN  IF i # bad THEN r
            ELSE IF field = "Pilote" THEN [r EXCEPT !.Pilote = ""]
            ELSE IF field = "Section" THEN [r EXCEPT !.Section = "x"]
            ELSE [r EXCEPT !.Date = "2025-11-04"]]]

\* PUT /courses/import with one of these files.
StartTen ==
    \E bad \in 1..TenRows, field \in KeyFields :
        /\ pc = "idle"
        /\ Begin("courses", TenRowFile(bad, field))
        /\ first' = NoFirst

NextTen ==
    \/ StartTen
    \/ CoursesRow
    \/ Return
    \/ Close

SpecTen == Init /\ [][NextTen]_vars

-----------------------------------------------------------------------------
(* Two course imports running side by side *)

\* Largest number of data rows of a file imported side by side with another.
MaxBatch == 1

Writers == {1, 2}

\* Rows with one natural key: the base row, the same session on the other
\* layout with another lap time and no kart, and the same with another Note.
SharedKeyRows ==
    { BaseCourseRow,
      [BaseCourseRow EXCEPT !.Configuration_Piste = "Long",
                            !.Meilleur_Tour = "45.250", !.Kart = ""],
      [BaseCourseRow EXCEPT !.Note = "4"] }

Batches ==
    { [i \in 1..Len(f) |-> CoerceCourseRow(f[i])] :
        f \in UNION { [1..k -> SharedKeyRows] : k \in 1..MaxBatch } }

\* The tables after an import of the base row alone.
SeededStore ==
    LET it == CourseIteration({}, {}, {}, CoerceCourseRow(BaseCourseRow), 0, 0)
    IN  [circuits |-> it.circuits, courses |-> it.courses]

\* A request of upsert_courses_csv entering its row loop (line 285).
NewSession(rows) ==
    [rows |-> rows, index |-> 0, step |-> "circuit", cache |-> {},
     circuit_id |-> 0, loaded |-> {}]

InitSideBySide ==
    /\ \E st \in {[circuits |-> {}, courses |-> {}], SeededStore} :
          /\ circuits = st.circuits
          /\ courses = st.courses
          /\ pre = st
    /\ sessions \in [Writers -> { NewSession(b) : b \in Batches }]
    /\ pc = "idle"
    /\ op = "none"
    /\ file = NoFile
    /\ index = 0
    /\ updated_count = 0
    /\ created_count = 0
    /\ circuits_uniques = {}
    /\ response = NoResponse
    /\ printed = <<>>
    /\ first = NoFirst
    /\ call = NoCall

SessionRow(w) == sessions[w].rows[sessions[w].index + 1]

OnlySessions ==
    UNCHANGED <<pc, op, file, index, updated_count, created_count,
                circuits_uniques, response, printed, pre, first, call>>

\* Lines 292-304 and 315: the cache, else the SELECT on circuit; a circuit that
\* is found is cached.
SelectCircuitStep(w) ==
    /\ sessions[w].step = "circuit"
    /\ LET row   == SessionRow(w)
           key   == <<row.Nom_Circuit, row.Configuration_Piste>>
           hit   == { e \in sessions[w].cache : e.key = key }
           found == SelectCircuit(circuits, row.Nom_Circuit, row.Configuration_Piste)
       IN  sessions' =
             IF hit # {}
             THEN [sessions EXCEPT ![w].circuit_id = (CHOOSE e \in hit : TRUE).id,
                                   ![w].step = "course"]
             ELSE IF found # {}
             THEN [sessions EXCEPT
                     ![w].circuit_id = First(found).id,
                     ![w].cache = @ \cup {[key |-> key, id |-> First(found).id]},
                     ![w].step = "course"]
             ELSE [sessions EXCEPT ![w].step = "new_circuit"]
    /\ UNCHANGED <<circuits, courses>>
    /\ OnlySessions

\* Lines 306-315: the placeholder is inserted and committed, then cached.
InsertCircuitStep(w) ==
    /\ sessions[w].step = "new_circuit"
    /\ LET row   == SessionRow(w)
           fresh == PlaceholderCircuit(circuits, row)
       IN  /\ circuits' = circuits \cup {fresh}
           /\ sessions' = [sessions EXCEPT
                 ![w].circuit_id = fresh.id,
                 ![w].cache = @ \cup {[key |-> <<row.Nom_Circuit,
                                                row.Configuration_Piste>>,
                                       id |-> fresh.id]},
                 ![w].step = "course"]
    /\ UNCHANGED courses
    /\ OnlySessions

\* Lines 317-323: the SELECT on course; the session keeps the row it loaded.
SelectCourseStep(w) ==
    /\ sessions[w].step = "course"
    /\ LET existing == ExistingCourse(courses, SessionRow(w))
       IN  sessions' = [sessions EXCEPT
             ![w].loaded = IF existing = {} THEN {} ELSE {First(existing)},
             ![w].step = "commit"]
    /\ UNCHANGED <<circuits, courses>>
    /\ OnlySessions

\* session.commit() of an updated Course: the UPDATE names the row by id and
\* sets the columns whose new value differs from the value the session loaded.
FlushedCourse(stored, loaded, course_data) ==
    LET target == UpdatedCourse(loaded, course_data)
    IN  [stored EXCEPT
           !.Section = IF target.Section # loaded.Section THEN target.Section ELSE @,
           !.Pilote = IF target.Pilote # loaded.Pilote THEN target.Pilote ELSE @,
           !.Date = IF target.Date # loaded.Date THEN target.Date ELSE @,
           !.Kart = IF target.Kart # loaded.Kart THEN target.Kart ELSE @,
           !.Note = IF target.Note # loaded.Note THEN target.Note ELSE @,
           !.Meilleur_Tour = IF target.Meilleur_Tour # loaded.Meilleur_Tour
                             THEN target.Meilleur_Tour ELSE @,
           !.Humidite = IF target.Humidite # loaded.Humidite
                        THEN target.Humidite ELSE @,
           !.circuit_id = IF target.circuit_id # loaded.circuit_id
                          THEN target.circuit_id ELSE @]

\* Lines 325-353: the update or the insert, and the commit; then the next row.
CommitCourseStep(w) ==
    /\ sessions[w].step = "commit"
    /\ LET s           == sessions[w]
           course_data == CourseData(SessionRow(w), s.circuit_id)
           loaded      == CHOOSE c \in s.loaded : TRUE
           stored      == CHOOSE c \in courses : c.id = loaded.id
       IN  courses' =
             IF s.loaded # {}
             THEN (courses \ {stored})
                     \cup {FlushedCourse(stored, loaded, course_data)}
             ELSE courses \cup {NewCourse(courses, course_data)}
    /\ sessions' = [sessions EXCEPT
          ![w].index = @ + 1,
          ![w].loaded = {},
          ![w].step = IF sessions[w].index + 1 = Len(sessions[w].rows)
                      THEN "done" ELSE "circuit"]
    /\ UNCHANGED circuits
    /\ OnlySessions

NextSideBySide ==
    \E w \in Writers :
        \/ SelectCircuitStep(w)
        \/ InsertCircuitStep(w)
        \/ SelectCourseStep(w)
        \/ CommitCourseStep(w)

\* Two course imports whose SQL statements interleave in any order.
SpecSideBySide == InitSideBySide /\ [][NextSideBySide]_vars

\* A stored Course carries the values of one row of the writer's file.
WrittenBy(c, w) ==
    \E i \in 1..Len(sessions[w].rows) :
        LET row == sessions[w].rows[i]
        IN  /\ SameCourseKey(c, row)
            /\ c.Kart = row.Kart
            /\ c.Note = row.Note
            /\ c.Meilleur_Tour = row.Meilleur_Tour
            /\ c.Humidite = row.Humidite

\* C11: when two course imports against the same natural keys have both run
\* to their end, with their lookups, writes and commits interleaved in any
\* order, the store holds one Course per (Section, Pilote, Date) and one
\* Circuit per (Nom_Circuit, Configuration_Piste), and every Course carries
\* the field values of one of the two writers.
C11_LastWriterWins ==
    (\A w \in Writers : sessions[w].step = "done") =>
        /\ \A c, d \in courses : SameCourseKey(c, d) => c.id = d.id
        /\ \A c, d \in circuits : SameCircuitKey(c, d) => c.id = d.id
        /\ \A c \in courses : \E w \in Writers : WrittenBy(c, w)

-----------------------------------------------------------------------------
(* Python floats and texts, as the lap-time functions use them *)

\* A float is binary: a significand of SigBits bits and every operation
\* rounded to the nearest representable value, ties to even (Python: 53 bits).
\* A value is written as a whole number of units of 2^-FracBits seconds, the
\* smallest step of the format.
SigBits == 20
FracBits == 17

One == 2^FracBits

\* a / b rounded to the nearest integer, ties to even (a >= 0, b > 0).
RoundHalfEven(a, b) ==
    LET f == a \div b
        r == a % b
    IN  IF 2 * r < b THEN f
        ELSE IF 2 * r > b THEN f + 1
        ELSE IF f % 2 = 0 THEN f ELSE f + 1

\* The gap between neighbouring floats at magnitude q units.
Spacing(q) ==
    2^(CHOOSE e \in 0..(30 - SigBits) :
          /\ q < 2^(SigBits + e)
          /\ e = 0 \/ q >= 2^(SigBits + e - 1))

\* The float nearest to num / den units (num >= 0, den > 0).
Fl(num, den) ==
    LET sp == Spacing(num \div den)
    IN  sp * RoundHalfEven(num, den * sp)

\* What a function of the analysis layer returns or raises.
Num(v) == [kind |-> "float", v |-> v]
NanValue == [kind |-> "nan", v |-> 0]
NoneValue == [kind |-> "None", v |-> 0]
Raises == [kind |-> "raise", v |-> 0]
TextValue(t) == [kind |-> "str", text |-> t]

\* The float a source text writes as n thousandths (n / 1000).
FloatOfMs(n) == Fl(n * 2^(FracBits - 3), 125)

\* The whole number of milliseconds nearest to a float.
MsOf(x) == (x \div One) * 1000 + RoundHalfEven((x % One) * 125, 2^(FracBits - 3))

Digits == <<"0", "1", "2", "3", "4", "5", "6", "7", "8", "9">>
IsDigit(ch) == \E d \in 1..10 : Digits[d] = ch
DigitValue(ch) == (CHOOSE d \in 1..10 : Digits[d] = ch) - 1

\* The number a text of digits writes.
RECURSIVE DigitsValue(_)
DigitsValue(t) ==
    IF t = <<>> THEN 0
    ELSE 10 * DigitsValue(SubSeq(t, 1, Len(t) - 1)) + DigitValue(t[Len(t)])

\* format(n, 'd') and format(n, '0<width>d') for n >= 0.
RECURSIVE Decimal(_)
Decimal(n) ==
    IF n < 10 THEN <<Digits[n + 1]>>
    ELSE Decimal(n \div 10) \o <<Digits[(n % 10) + 1]>>

RECURSIVE Padded(_, _)
Padded(n, width) ==
    IF Len(Decimal(n)) >= width THEN Decimal(n)
    ELSE <<"0">> \o Padded(n, width - 1)

\* str.split(sep): the pieces between the occurrences of sep.
RECURSIVE Split(_, _)
Split(t, sep) ==
    IF \A i \in 1..Len(t) : t[i] # sep THEN <<t>>
    ELSE LET i == CHOOSE i \in 1..Len(t) :
                     t[i] = sep /\ \A j \in 1..(i - 1) : t[j] # sep
         IN  <<SubSeq(t, 1, i - 1)>> \o Split(SubSeq(t, i + 1, Len(t)), sep)

\* str.strip(): the text without its leading and trailing blanks.
RECURSIVE Strip(_)
Strip(t) ==
    IF t = <<>> THEN t
    ELSE IF t[1] = " " THEN Strip(Tail(t))
    ELSE IF t[Len(t)] = " " THEN Strip(SubSeq(t, 1, Len(t) - 1))
    ELSE t

AllDigits(t) == t # <<>> /\ \A i \in 1..Len(t) : IsDigit(t[i])

\* A text with its sign taken off: float() and int() accept one leading sign.
Unsigned(t) == IF t # <<>> /\ t[1] \in {"-", "+"} THEN Tail(t) ELSE t
Negative(t) == t # <<>> /\ t[1] = "-"

\* int(text): blanks around, a sign, digits; anything else is a ValueError.
IntParses(t) == AllDigits(Unsigned(Strip(t)))
IntValue(t) ==
    LET u == Strip(t)
    IN  IF Negative(u) THEN 0 - DigitsValue(Unsigned(u)) ELSE DigitsValue(Unsigned(u))

\* float(text): blanks around, a sign, digits with at most one point and at
\* least one digit; anything else is a ValueError.
FloatParses(t) ==
    LET parts == Split(Unsigned(Strip(t)), ".")
    IN  /\ Len(parts) <= 2
        /\ \A i \in 1..Len(parts) : parts[i] = <<>> \/ AllDigits(parts[i])
        /\ \E i \in 1..Len(parts) : parts[i] # <<>>

\* The float nearest to the decimal the text writes (sign apart).
FloatMagnitude(t) ==
    LET parts == Split(Unsigned(Strip(t)), ".")
        frac  == IF Len(parts) = 2 THEN parts[2] ELSE <<>>
        n     == DigitsValue(parts[1] \o frac)
    IN  Fl(n * 2^(FracBits - Len(frac)), 5^Len(frac))

FloatValue(t) ==
    IF Negative(Strip(t)) THEN 0 - FloatMagnitude(t) ELSE FloatMagnitude(t)

\* a + b and a * k of floats: the exact result, rounded.
FAdd(a, b) == IF a + b >= 0 THEN Fl(a + b, 1) ELSE 0 - Fl(0 - (a + b), 1)
FTimes(a, k) == IF a >= 0 THEN Fl(a * k, 1) ELSE 0 - Fl((0 - a) * k, 1)
FOver(a, k) == IF a >= 0 THEN Fl(a, k) ELSE 0 - Fl(0 - a, k)

-----------------------------------------------------------------------------
(* The lap-time functions *)

\* backend/utils.py, convert_time_to_seconds: NaN for a missing value and for
\* whatever the try block raises.
convert_time_to_seconds(time_str) ==
    IF time_str.kind # "str" THEN NanValue
    ELSE LET t     == time_str.text
             colon == Split(t, ":")
             rest  == Split(IF Len(colon) = 2 THEN colon[2] ELSE t, ".")
         IN  IF \E i \in 1..Len(t) : t[i] = ":"
             THEN IF /\ Len(colon) = 2
                     /\ Len(rest) = 2
                     /\ FloatParses(colon[1])
                     /\ FloatParses(rest[1])
                     /\ FloatParses(rest[2])
                  THEN Num(FAdd(FAdd(FTimes(FloatValue(colon[1]), 60),
                                     FloatValue(rest[1])),
                                FOver(FloatValue(rest[2]), 1000)))
                  ELSE NanValue
             ELSE IF Len(rest) = 2 /\ FloatParses(rest[1]) /\ FloatParses(rest[2])
                  THEN Num(FAdd(FloatValue(rest[1]),
                                FOver(FloatValue(rest[2]), 1000)))
                  ELSE NanValue

\* frontend/src/data_analysis.py, _convert_time_to_seconds: the text must hold
\* one colon and one point; 0.0 for whatever the try block raises.
analyzer_convert_time_to_seconds(time_str) ==
    IF time_str.kind # "str" THEN Num(0)
    ELSE LET colon == Split(time_str.text, ":")
             rest  == Split(IF Len(colon) = 2 THEN colon[2] ELSE <<>>, ".")
         IN  IF /\ Len(colon) = 2
                /\ Len(rest) = 2
                /\ IntParses(colon[1])
                /\ IntParses(rest[1])
                /\ IntParses(rest[2])
             THEN Num(FAdd((IntValue(colon[1]) * 60 + IntValue(rest[1])) * One,
                           FOver(IntValue(rest[2]) * One, 1000)))
             ELSE Num(0)

\* app.py, time_to_seconds: None for a missing or empty value; int() and
\* float() are called outside any try block.
time_to_seconds(time_str) ==
    IF time_str.kind # "str" \/ time_str.text = <<>> THEN NoneValue
    ELSE LET t     == Strip(time_str.text)
             parts == Split(t, ":")
         IN  IF \E i \in 1..Len(t) : t[i] = ":"
             THEN IF IntParses(parts[1]) /\ FloatParses(parts[2])
                  THEN Num(FAdd(IntValue(parts[1]) * 60 * One, FloatValue(parts[2])))
                  ELSE Raises
             ELSE IF FloatParses(t) THEN Num(FloatValue(t)) ELSE Raises

\* Lines 29-33 of backend/utils.py and 64-67 of frontend/src/utils.py: the
\* text of a float of seconds >= 0; the milliseconds are cut by int().
TimeText(seconds) ==
    LET minutes           == seconds \div (60 * One)
        remaining_seconds == seconds % (60 * One)
        milliseconds      == FTimes(remaining_seconds % One, 1000)
    IN  Decimal(minutes) \o <<":">> \o Padded(remaining_seconds \div One, 2)
           \o <<".">> \o Padded(milliseconds \div One, 3)

\* backend/utils.py, convert_seconds_to_time
convert_seconds_to_time(seconds) ==
    IF seconds.kind = "nan" THEN TextValue(<<"N", "/", "A">>)
    ELSE TextValue(TimeText(seconds.v))

\* frontend/src/utils.py, format_time_from_seconds: int() of a NaN raises.
format_time_from_seconds(seconds) ==
    IF seconds.kind = "nan" THEN Raises
    ELSE TextValue(TimeText(seconds.v))

Formatters == {"convert_seconds_to_time", "format_time_from_seconds"}
Parsers == {"convert_time_to_seconds", "_convert_time_to_seconds", "time_to_seconds"}

Format(fn, seconds) ==
    IF fn = "convert_seconds_to_time" THEN convert_seconds_to_time(seconds)
    ELSE format_time_from_seconds(seconds)

Parse(fn, time_str) ==
    IF fn = "convert_time_to_seconds" THEN convert_time_to_seconds(time_str)
    ELSE IF fn = "_convert_time_to_seconds"
    THEN analyzer_convert_time_to_seconds(time_str)
    ELSE time_to_seconds(time_str)

-----------------------------------------------------------------------------
(* The lap-time functions applied to times and to texts *)

\* Largest time, in milliseconds, that is formatted and parsed back.
MaxTimeMs == 20000

\* Times of more than a minute that are formatted as well.
LongTimesMs == {59999, 60000, 60001, 75017, 90500, 119999}

\* "M:SS.mmm" (colon) or "SS.mmm" as a source file writes it.
WrittenTime(m, ss, mmm, colon) ==
    (IF colon THEN Decimal(m) \o <<":">> ELSE <<>>)
       \o Padded(ss, 2) \o <<".">> \o Padded(mmm, 3)

WellFormed ==
    [kind : {"well_formed"}, m : {0, 1, 2}, ss : {0, 5, 30, 59},
     mmm : {0, 1, 250, 500, 999}, colon : {TRUE}]
    \cup [kind : {"well_formed"}, m : {0}, ss : {0, 5, 30, 45, 59},
          mmm : {0, 1, 250, 500, 999}, colon : {FALSE}]

\* Texts that are no lap time: empty, blank, words, a missing or damaged
\* fraction, letters in a field, too many separators.
MalformedTexts ==
    { <<>>,
      <<" ", " ">>,
      <<"a", "b", "c">>,
      <<"1", ":", "3", "0">>,
      <<"1", ":", "3", "0", ".">>,
      <<"1", ":", "3", "0", ".", "5", "x", "0">>,
      <<"1", ":", "x", "0", ".", "5", "0", "0">>,
      <<"x", ":", "3", "0", ".", "5", "0", "0">>,
      <<"1", ":", "3", "0", ":", "5", "0", "0">>,
      <<"4", "5", ".", "2", "5", ".", "0">>,
      <<"4", "5", ",", "2", "5", "0">>,
      <<":", ".">>,
      <<"N", "/", "A">> }

NewCall(fn, arg, about) ==
    [fn |-> fn, arg |-> arg, about |-> about, step |-> "called",
     out |-> NoneValue, back |-> NoneValue]

TimeCalls ==
    { NewCall(fn, Num(FloatOfMs(n)), [kind |-> "seconds", ms |-> n]) :
        fn \in Formatters, n \in (0..MaxTimeMs) \cup LongTimesMs }
    \cup { NewCall(fn, NanValue, [kind |-> "missing"]) : fn \in Formatters \cup Parsers }
    \cup { NewCall(fn, TextValue(WrittenTime(w.m, w.ss, w.mmm, w.colon)), w) :
             fn \in Parsers, w \in WellFormed }
    \cup { NewCall(fn, TextValue(t), [kind |-> "malformed"]) :
             fn \in Parsers, t \in MalformedTexts }

\* The tables and the requests stay as db.py creates them.
NoRequests ==
    /\ circuits = {}
    /\ courses = {}
    /\ pc = "idle"
    /\ op = "none"
    /\ file = NoFile
    /\ index = 0
    /\ updated_count = 0
    /\ created_count = 0
    /\ circuits_uniques = {}
    /\ response = NoResponse
    /\ printed = <<>>
    /\ pre = [circuits |-> {}, courses |-> {}]
    /\ first = NoFirst
    /\ sessions = NoSessions

OnlyCall ==
    UNCHANGED <<circuits, courses, pc, op, file, index, updated_count,
                created_count, circuits_uniques, response, printed, pre, first,
                sessions>>

InitTime == NoRequests /\ call \in TimeCalls

\* A time is formatted.
FormatCall ==
    /\ call.fn \in Formatters
    /\ call.step = "called"
    /\ call' = [call EXCEPT !.step = "formatted", !.out = Format(call.fn, call.arg)]
    /\ OnlyCall

\* The text of a time is parsed back by convert_time_to_seconds.
ParseBack ==
    /\ call.step = "formatted"
    /\ call.out.kind = "str"
    /\ call' = [call EXCEPT !.step = "parsed",
                            !.back = convert_time_to_seconds(call.out)]
    /\ OnlyCall

\* A text is parsed.
ParseCall ==
    /\ call.fn \in Parsers
    /\ call.step = "called"
    /\ call' = [call EXCEPT !.step = "returned", !.out = Parse(call.fn, call.arg)]
    /\ OnlyCall

NextTime == FormatCall \/ ParseBack \/ ParseCall

SpecTime == InitTime /\ [][NextTime]_vars

\* |a - b|
Distance(a, b) == IF a >= b THEN a - b ELSE b - a

\* The seconds and milliseconds fields of a formatted time.
SecondsField(text) == Split(Split(text, ":")[2], ".")[1]
MillisecondsField(text) == Split(Split(text, ":")[2], ".")[2]

\* C12: a time of a whole number of milliseconds, x >= 0, formatted by
\* convert_seconds_to_time or format_time_from_seconds and parsed back by
\* convert_time_to_seconds, comes back within 0.001 s of x, and the text has
\* a seconds field in 00..59 and a milliseconds field in 000..999.
C12_TimeRoundTrip ==
    (call.fn \in Formatters /\ call.step = "parsed" /\ call.about.kind = "seconds") =>
        /\ call.back.kind = "float"
        /\ Distance(call.back.v, call.arg.v) <= FloatOfMs(1)
        /\ Len(SecondsField(call.out.text)) = 2
        /\ AllDigits(SecondsField(call.out.text))
        /\ DigitsValue(SecondsField(call.out.text)) \in 0..59
        /\ Len(MillisecondsField(call.out.text)) = 3
        /\ AllDigits(MillisecondsField(call.out.text))
        /\ DigitsValue(MillisecondsField(call.out.text)) \in 0..999

\* C13: each of the three parsers maps a text "M:SS.mmm" to
\* M*60 + SS + mmm/1000 seconds and a text "SS.mmm" without a colon to
\* SS + mmm/1000 seconds ("1:30.500" to 90.5, "45.250" to 45.25).
C13_ParseWellFormed ==
    (/\ call.fn \in Parsers
     /\ call.step = "returned"
     /\ call.about.kind = "well_formed") =>
        /\ call.out.kind = "float"
        /\ MsOf(call.out.v) =
              (call.about.m * 60 + call.about.ss) * 1000 + call.about.mmm

\* C14: for an empty, blank, non-numeric or malformed text each parser
\* returns its missing-value sentinel: it raises nothing and returns no
\* number, 0 included.
C14_LenientParseFailure ==
    (/\ call.fn \in Parsers
     /\ call.step = "returned"
     /\ call.about.kind = "malformed") =>
        call.out.kind \in {"nan", "None"}

-----------------------------------------------------------------------------
(* backend/utils.py, apply_filters *)

\* Largest number of rows of a filtered table.
MaxDf == 2

\* Humidity readings in percent; a missing reading is None (NaN in pandas).
HumidityValues == {0, 19, 20, 100}

FilterRows ==
    [Pilote : {"Ann", "Bob"}, Circuit : {"Moissy", "Cergy"},
     Humidite : {None} \cup { Some(h) : h \in HumidityValues }]

\* df['Humidite'] >= bound and <= bound: a comparison with NaN is False.
AtLeast(h, bound) == h # None /\ h[1] >= bound
AtMost(h, bound) == h # None /\ h[1] <= bound

\* Variant: the lower bound compared with > instead of >=.
apply_filters_strict(df, selected_pilots, selected_circuit, min_humidity, max_humidity) ==
    IF df = <<>> THEN df
    ELSE LET keep(r) == /\ r.Pilote \in selected_pilots
                        /\ r.Circuit = selected_circuit
                        /\ r.Humidite # None /\ r.Humidite[1] > min_humidity
                        /\ AtMost(r.Humidite, max_humidity)
         IN  SelectSeq(df, keep)

\* Lines 50-59: the rows of df, in order, for which the four conditions hold.
apply_filters(df, selected_pilots, selected_circuit, min_humidity, max_humidity) ==
    IF df = <<>> THEN df
    ELSE LET keep(r) == /\ r.Pilote \in selected_pilots
                        /\ r.Circuit = selected_circuit
                        /\ AtLeast(r.Humidite, min_humidity)
                        /\ AtMost(r.Humidite, max_humidity)
         IN  SelectSeq(df, keep)

FilterCalls ==
    [fn : {"apply_filters"}, df : SeqsUpTo(FilterRows, MaxDf),
     selected_pilots : {{"Ann"}, {"Ann", "Bob"}}, selected_circuit : {"Moissy"},
     bounds : {<<0, 100>>, <<20, 100>>, <<20, 20>>}, step : {"called"},
     out : {<<>>}]

InitFilter == NoRequests /\ call \in FilterCalls

ApplyFilters ==
    /\ call.fn = "apply_filters"
    /\ call.step = "called"
    /\ call' = [call EXCEPT
          !.step = "returned",
          !.out = apply_filters(call.df, call.selected_pilots,
                                call.selected_circuit, call.bounds[1],
                                call.bounds[2])]
    /\ OnlyCall

NextFilter == ApplyFilters

SpecFilter == InitFilter /\ [][NextFilter]_vars

\* The smallest and the largest possible humidity.
LeastHumidity == CHOOSE h \in HumidityValues : \A g \in HumidityValues : h <= g
GreatestHumidity == CHOOSE h \in HumidityValues : \A g \in HumidityValues : g <= h

\* The humidity of a row is present and within the bounds.
HumidityWithin(r, bounds) ==
    r.Humidite # None /\ bounds[1] <= r.Humidite[1] /\ r.Humidite[1] <= bounds[2]

\* The rows of df for which P holds, in their order: the j-th is the row at
\* the j-th smallest position at which P holds.
RowsWhere(df, P(_)) ==
    LET at == { i \in 1..Len(df) : P(df[i]) }
    IN  [j \in 1..Cardinality(at) |->
           df[CHOOSE i \in at : Cardinality({ k \in at : k <= i }) = j]]

\* C15 as claimed: apply_filters with bounds [lo, hi] returns exactly the rows
\* whose Humidite is present and within the bounds, and with the bounds
\* [smallest possible, largest possible] it returns the rows it was given.
C15_HumidityFilter_AnyRows ==
    (call.fn = "apply_filters" /\ call.step = "returned") =>
        /\ LET within(r) == HumidityWithin(r, call.bounds)
           IN  call.out = RowsWhere(call.df, within)
        /\ call.bounds = <<LeastHumidity, GreatestHumidity>> => call.out = call.df

\* C15, amended: apply_filters returns, in their order, exactly the rows whose
\* Pilote is among the selected pilots, whose Circuit is the selected circuit
\* and whose Humidite is present and within [lo, hi]; so [20, 100] drops the
\* rows without humidity and those below 20, and with the bounds [smallest
\* possible, largest possible] a table whose rows all have a selected pilot,
\* the selected circuit and a humidity comes back as it was given.
C15_HumidityFilter ==
    (call.fn = "apply_filters" /\ call.step = "returned") =>
        LET selected(r) == /\ r.Pilote \in call.selected_pilots
                           /\ r.Circuit = call.selected_circuit
            wanted(r)   == selected(r) /\ HumidityWithin(r, call.bounds)
            present(r)  == selected(r) /\ r.Humidite # None
        IN  /\ call.out = RowsWhere(call.df, wanted)
            /\ \A i \in 1..Len(call.out) :
                  /\ call.out[i].Humidite # None
                  /\ call.out[i].Humidite[1] >= call.bounds[1]
            /\ (/\ call.bounds = <<LeastHumidity, GreatestHumidity>>
                /\ \A i \in 1..Len(call.df) : present(call.df[i]))
                  => call.out = call.df

\* A table with a row at the lower bound, a row below it and a row without
\* humidity was filtered with [20, 100], and only the first came back.
C15_Witness ==
    /\ call.fn = "apply_filters"
    /\ call.step = "returned"
    /\ call.bounds = <<20, 100>>
    /\ Len(call.df) = 2
    /\ Len(call.out) = 1
    /\ call.out[1].Humidite = Some(20)
    /\ \E i \in 1..2 : call.df[i].Humidite \in {None, Some(19)}
                       /\ call.df[i].Pilote \in call.selected_pilots
                       /\ call.df[i].Circuit = call.selected_circuit

-----------------------------------------------------------------------------
(* Statistics per kart: app.py's kart_stats and the analyzer's top kart *)

\* Rows of the courses table as the analysis layer holds them: lap times are
\* floats of seconds (whole seconds here), karts are numbered.
LapRows ==
    [Kart : {1, 2}, Note : {3, 4}, Pilote : {"Ann"}, Temps_secondes : {10, 20},
     circuit_id : {1}]

Lap(kart, temps) ==
    [Kart |-> kart, Note |-> 3, Pilote |-> "Ann", Temps_secondes |-> temps,
     circuit_id |-> 1]

\* Kart 1 with laps 10, 12, 11 and kart 2 with laps 20, 22; and the same laps
\* with the karts exchanged.
ExampleLaps == <<Lap(1, 10), Lap(1, 12), Lap(1, 11), Lap(2, 20), Lap(2, 22)>>
ExchangedLaps == <<Lap(2, 10), Lap(2, 12), Lap(2, 11), Lap(1, 20), Lap(1, 22)>>

LapTables == {ExampleLaps, ExchangedLaps} \cup SeqsUpTo(LapRows, MaxDf)

RECURSIVE SumOf(_, _)
SumOf(df, field) ==
    IF df = <<>> THEN 0 ELSE df[1][field] + SumOf(Tail(df), field)

\* Series.mean(), in thousandths (kart_stats rounds to three decimals).
MeanOf(df, field) == RoundHalfEven(SumOf(df, field) * 1000, Len(df))

MinOf(df, field) ==
    LET vs == { df[i][field] : i \in 1..Len(df) }
    IN  CHOOSE v \in vs : \A u \in vs : v <= u

MaxOf(df, field) ==
    LET vs == { df[i][field] : i \in 1..Len(df) }
    IN  CHOOSE v \in vs : \A u \in vs : u <= v

\* The rows of one kart, and of one (kart, note) pair.
OfKart(df, kart) == SelectSeq(df, LAMBDA r : r.Kart = kart)
OfKartNote(df, kart, note) == SelectSeq(df, LAMBDA r : r.Kart = kart /\ r.Note = note)

\* A set of records as the sequence that puts a before b when Before(a, b).
Sorted(S, Before(_, _)) ==
    [i \in 1..Cardinality(S) |->
       CHOOSE g \in S : Cardinality({ h \in S : Before(h, g) }) = i - 1]

\* app.py, lines 335-341: one line per (Kart, Note) with the number of laps,
\* their mean and their minimum and the pilots, sorted by the mean (groups
\* with equal means stay in key order).
kart_stats(df_karts) ==
    LET keys   == { <<df_karts[i].Kart, df_karts[i].Note>> : i \in 1..Len(df_karts) }
        groups == { [Kart |-> k[1], Note |-> k[2],
                     count |-> Len(OfKartNote(df_karts, k[1], k[2])),
                     mean |-> MeanOf(OfKartNote(df_karts, k[1], k[2]), "Temps_secondes"),
                     min |-> MinOf(OfKartNote(df_karts, k[1], k[2]), "Temps_secondes"),
                     Pilotes |-> { r.Pilote : r \in
                        { OfKartNote(df_karts, k[1], k[2])[i] :
                            i \in 1..Len(OfKartNote(df_karts, k[1], k[2])) } }] :
                    k \in keys }
        before(a, b) == \/ a.mean < b.mean
                        \/ a.mean = b.mean /\ a.Kart < b.Kart
                        \/ a.mean = b.mean /\ a.Kart = b.Kart /\ a.Note < b.Note
    IN  Sorted(groups, before)

\* What a function returns when it has nothing to report: {}.
EmptyDict == [kind |-> "empty"]

\* data_analysis.py, lines 126-134: the karts of the circuit with the mean of
\* their notes, the mean of their lap times and their number of courses,
\* sorted by the mean note (highest first) and then the mean time.
KartRanking(df, circuit_id) ==
    LET circuit_courses == SelectSeq(df, LAMBDA r : r.circuit_id = circuit_id)
        karts  == { circuit_courses[i].Kart : i \in 1..Len(circuit_courses) }
        groups == { [kart_id |-> k,
                     moyenne_note |-> MeanOf(OfKart(circuit_courses, k), "Note"),
                     moyenne_temps |-> MeanOf(OfKart(circuit_courses, k), "Temps_secondes"),
                     nombre_courses |-> Len(OfKart(circuit_courses, k))] :
                    k \in karts }
        before(a, b) == \/ a.moyenne_note > b.moyenne_note
                        \/ /\ a.moyenne_note = b.moyenne_note
                           /\ a.moyenne_temps < b.moyenne_temps
                        \/ /\ a.moyenne_note = b.moyenne_note
                           /\ a.moyenne_temps = b.moyenne_temps
                           /\ a.kart_id < b.kart_id
    IN  Sorted(groups, before)

\* data_analysis.py, lines 112-142: {} for a circuit without courses, else
\* the first line of the ranking.
get_top_kart_for_circuit(df, circuit_id) ==
    IF KartRanking(df, circuit_id) = <<>> THEN EmptyDict
    ELSE [kind |-> "top", top |-> KartRanking(df, circuit_id)[1]]

StatsCalls ==
    [fn : {"kart_stats", "_get_top_kart_for_circuit"}, df : LapTables,
     step : {"called"}, out : {<<>>}]

InitStats == NoRequests /\ call \in StatsCalls

KartStatsCall ==
    /\ call.fn = "kart_stats"
    /\ call.step = "called"
    /\ call.df # <<>>
    /\ call' = [call EXCEPT !.step = "returned", !.out = kart_stats(call.df)]
    /\ OnlyCall

TopKartCall ==
    /\ call.fn = "_get_top_kart_for_circuit"
    /\ call.step = "called"
    /\ call' = [call EXCEPT !.step = "returned",
                            !.out = get_top_kart_for_circuit(call.df, 1)]
    /\ OnlyCall

NextStats == KartStatsCall \/ TopKartCall

SpecStats == InitStats /\ [][NextStats]_vars

\* The karts of a table.
KartsOf(df) == { df[i].Kart : i \in 1..Len(df) }

\* C16: the statistics per kart hold one line per distinct kart, in ascending
\* order of the kart, with the count, mean, minimum and maximum of that
\* kart's lap times (laps 10, 12, 11 give 3, 11, 10, 12), and the ranking
\* gives the score 100 to the kart with the smallest mean lap time and 0 to
\* the kart with the largest.
C16_GroupedStatsAndScores ==
    /\ (call.fn = "kart_stats" /\ call.step = "returned") =>
          /\ Len(call.out) = Cardinality(KartsOf(call.df))
          /\ \A i \in 1..(Len(call.out) - 1) : call.out[i].Kart < call.out[i + 1].Kart
          /\ \A i \in 1..Len(call.out) :
                LET laps == OfKart(call.df, call.out[i].Kart)
                IN  /\ call.out[i].count = Len(laps)
                    /\ call.out[i].mean = MeanOf(laps, "Temps_secondes")
                    /\ call.out[i].min = MinOf(laps, "Temps_secondes")
                    /\ "max" \in DOMAIN call.out[i]
                    /\ call.out[i].max = MaxOf(laps, "Temps_secondes")
    /\ (/\ call.fn = "_get_top_kart_for_circuit"
        /\ call.step = "returned"
        /\ call.out.kind = "top") =>
          /\ \A k \in KartsOf(call.df) :
                call.out.top.moyenne_temps <= MeanOf(OfKart(call.df, k), "Temps_secondes")
          /\ "score" \in DOMAIN call.out.top
          /\ call.out.top.score = 100

\* C17: when two or more karts are ranked and all have the same mean lap
\* time, the ranking ends in an error the caller can tell apart; it names no
\* best kart and gives no score of 0 or NaN.
C17_UndefinedScoreOnTies ==
    (/\ call.fn = "_get_top_kart_for_circuit"
     /\ call.step = "returned"
     /\ Cardinality(KartsOf(call.df)) >= 2
     /\ \A j, k \in KartsOf(call.df) :
           MeanOf(OfKart(call.df, j), "Temps_secondes")
              = MeanOf(OfKart(call.df, k), "Temps_secondes")) =>
        call.out.kind = "error"

-----------------------------------------------------------------------------
(* The GET requests: routing, get-by-id and export *)

\* The routes of api.py in the order of their decorators; a path is the
\* sequence of its segments and "{}" stands for a path parameter.
Routes ==
    << [method |-> "GET", path |-> <<"circuits">>, endpoint |-> "read_circuits"],
       [method |-> "GET", path |-> <<"circuits", "{}">>, endpoint |-> "read_circuit_by_id"],
       [method |-> "GET", path |-> <<"circuits", "export">>, endpoint |-> "export_circuits"],
       [method |-> "PUT", path |-> <<"circuits", "import">>, endpoint |-> "upsert_circuits_csv"],
       [method |-> "GET", path |-> <<"courses">>, endpoint |-> "read_courses"],
       [method |-> "GET", path |-> <<"courses", "{}">>, endpoint |-> "read_course_by_id"],
       [method |-> "GET", path |-> <<"courses", "export">>, endpoint |-> "export_courses"],
       [method |-> "PUT", path |-> <<"courses", "import">>, endpoint |-> "upsert_courses_csv"] >>

\* The path of a route matches the path of a request, segment by segment.
PathMatches(pattern, path) ==
    /\ Len(pattern) = Len(path)
    /\ \A i \in 1..Len(path) : pattern[i] = "{}" \/ pattern[i] = path[i]

\* The router takes the first route whose path and method both match.
Dispatch(method, path) ==
    LET full == { i \in 1..Len(Routes) :
                    PathMatches(Routes[i].path, path) /\ Routes[i].method = method }
    IN  IF full = {} THEN "none"
        ELSE Routes[CHOOSE i \in full : \A j \in full : i <= j].endpoint

\* session.get(Model, id)
Get(table, id) == { x \in table : x.id = id }

\* Lines 47-55: a circuit that is found is returned through a route declared
\* with response_model=Course; a Circuit has none of the required fields of
\* Course, so building the response fails (500).
read_circuit_by_id(circuit_id) ==
    IF circuit_id \notin DOMAIN IntText THEN [status |-> 422]
    ELSE IF Get(circuits, IntText[circuit_id]) = {} THEN [status |-> 404]
    ELSE [status |-> 500]

\* Lines 173-181
read_course_by_id(course_id) ==
    IF course_id \notin DOMAIN IntText THEN [status |-> 422]
    ELSE IF Get(courses, IntText[course_id]) = {} THEN [status |-> 404]
    ELSE [status |-> 200,
          body |-> CHOOSE c \in Get(courses, IntText[course_id]) : TRUE]

\* The keys of Course.model_dump() once id and circuit_id are deleted and the
\* two circuit columns added (lines 201-210).
ExportedKeys ==
    {"Section", "Pilote", "Date", "Kart", "Note", "Meilleur_Tour", "Humidite",
     "Nom_Circuit", "Configuration_Piste"}

\* Lines 218-222
ordered_columns ==
    <<"Section", "Pilote", "Date", "Nom_Circuit", "Configuration_Piste",
      "Kart", "Note", "Meilleur_Tour", "Ecart", "Tours", "Humidite">>

\* Lines 184-230: 404 when the join is empty; df[ordered_columns] raises a
\* KeyError for a column the rows do not have, answered as 500.
export_courses ==
    LET results == { <<c, k>> \in courses \X circuits : c.circuit_id = k.id }
    IN  IF results = {} THEN [status |-> 404]
        ELSE IF \E i \in 1..Len(ordered_columns) : ordered_columns[i] \notin ExportedKeys
        THEN [status |-> 500]
        ELSE [status |-> 200, columns |-> ordered_columns,
              rows |-> { [course |-> r[1].id, Nom_Circuit |-> r[2].Nom_Circuit,
                          Configuration_Piste |-> r[2].Configuration_Piste] :
                         r \in results }]

\* Lines 58-84: 404 for an empty table, else the table without its id column.
export_circuits ==
    IF circuits = {} THEN [status |-> 404]
    ELSE [status |-> 200,
          columns |-> <<"Nom_Circuit", "Configuration_Piste", "Longueur", "Adresse">>,
          rows |-> { [Nom_Circuit |-> c.Nom_Circuit,
                      Configuration_Piste |-> c.Configuration_Piste,
                      Longueur |-> c.Longueur, Adresse |-> c.Adresse] :
                     c \in circuits }]

\* The answer to GET path.
Answer(path) ==
    LET endpoint == Dispatch("GET", path)
    IN  IF endpoint = "read_circuit_by_id" THEN read_circuit_by_id(path[2])
        ELSE IF endpoint = "read_course_by_id" THEN read_course_by_id(path[2])
        ELSE IF endpoint = "export_courses" THEN export_courses
        ELSE IF endpoint = "export_circuits" THEN export_circuits
        ELSE [status |-> 404]

GetPaths ==
    { <<t, x>> : t \in {"circuits", "courses"}, x \in {"1", "2", "3", "export"} }

\* A GET request is answered; the tables are read only.
GetRequest ==
    \E path \in GetPaths :
        /\ pc = "idle"
        /\ pc' = "done"
        /\ op' = "get"
        /\ call' = [fn |-> "GET", path |-> path]
        /\ response' = Answer(path)
        /\ pre' = [circuits |-> circuits, courses |-> courses]
        /\ UNCHANGED <<circuits, courses, file, index, updated_count,
                       created_count, circuits_uniques, printed, first, sessions>>

NextRead ==
    \/ StartCourses
    \/ CoursesRow
    \/ Return
    \/ Close
    \/ GetRequest

\* Course imports and GET requests, one after another.
SpecRead == Init /\ [][NextRead]_vars

\* A GET request for the entity of table with the identifier id was answered.
GotById(table, id) ==
    /\ pc = "done"
    /\ op = "get"
    /\ call.path = <<table, id>>
    /\ id \in DOMAIN IntText

\* C18: GET /circuits/{id} and GET /courses/{id} return the stored entity
\* with that id when there is one and answer 404 when there is none, and
\* leave both tables as they were.
C18_GetById ==
    \A id \in {"1", "2", "3"} :
        /\ GotById("circuits", id) =>
              /\ \A c \in circuits : c.id = IntText[id] =>
                    response.status = 200 /\ response.body = c
              /\ (\A c \in circuits : c.id # IntText[id]) => response.status = 404
              /\ circuits = pre.circuits /\ courses = pre.courses
        /\ GotById("courses", id) =>
              /\ \A c \in courses : c.id = IntText[id] =>
                    response.status = 200 /\ response.body = c
              /\ (\A c \in courses : c.id # IntText[id]) => response.status = 404
              /\ circuits = pre.circuits /\ courses = pre.courses

\* C19: GET /courses/export is answered, when a Course is stored, with a CSV
\* of one row per Course and the columns Section, Pilote, Date, Nom_Circuit,
\* Configuration_Piste, Kart, Note, Meilleur_Tour, Ecart, Tours, Humidite
\* (no id, no circuit_id), and with 404 when no Course is stored.
C19_CourseExport ==
    (pc = "done" /\ op = "get" /\ call.path = <<"courses", "export">>) =>
        IF courses = {} THEN response.status = 404
        ELSE /\ response.status = 200
             /\ response.columns = ordered_columns
             /\ Cardinality(response.rows) = Cardinality(courses)

-----------------------------------------------------------------------------
(* Circuits files that carry an id column *)

\* The ids written in the id column: those of the stored circuits and one that
\* no import has given out.
IdCells == {"1", "2", "5"}

\* Rows of a circuits CSV with the columns id, Circuit, Piste, Longueur, Adresse.
KeyedCircuitRows ==
    { BaseCircuitRow @@ [id |-> i] : i \in IdCells }

\* PUT /circuits/import with such a file.
StartKeyedCircuits ==
    \E f \in Files(KeyedCircuitRows) :
        /\ pc = "idle"
        /\ Begin("circuits", f)
        /\ first' = NoFirst

NextKeyed ==
    \/ StartCourses
    \/ StartKeyedCircuits
    \/ CoursesRow
    \/ CircuitsRow
    \/ Return
    \/ Close

SpecKeyed == Init /\ [][NextKeyed]_vars

\* Course.circuit: the rows of circuit that the foreign key of c selects.
CircuitOf(c) == { k \in circuits : k.id = c.circuit_id }

\* Circuit.courses: the rows of course whose foreign key is the id of k.
CoursesOf(k) == { c \in courses : c.circuit_id = k.id }

\* C20: in every state the imports reach, the circuit_id of each stored Course
\* is the id of exactly one stored Circuit, and the courses of a Circuit are
\* exactly the stored Courses that have this Circuit as theirs.
C20_ReferentialIntegrity ==
    /\ \A c \in courses : Cardinality(CircuitOf(c)) = 1
    /\ \A k \in circuits : CoursesOf(k) = { c \in courses : CircuitOf(c) = {k} }

-----------------------------------------------------------------------------
(* schema.py: the Pydantic models CircuitDeKarting and CourseDeKarting *)

ValidationError == [kind |-> "ValidationError"]

\* The keyword arguments of a constructor restricted to the names in S.
Given(data, S) == [k \in S |-> data[k]]

\* Lines 12-16: the four fields of CircuitDeKarting, all required (Field(...)).
CircuitFields == {"Nom_Circuit", "Configuration_Piste", "Longueur", "Adresse"}

\* Lines 7-20: CircuitDeKarting(**data).
CircuitDeKarting(data) ==
    IF CircuitFields \subseteq DOMAIN data
    THEN [kind |-> "CircuitDeKarting", fields |-> Given(data, CircuitFields)]
    ELSE ValidationError

\* Decimal(str(v)).as_tuple(): the digits without leading zeros and the
\* number of digits after the point.
Significant(t) == IF Len(t) > 1 /\ t[1] = "0" THEN SubSeq(t, 2, Len(t)) ELSE t

RECURSIVE Normalized(_)
Normalized(t) == IF Significant(t) = t THEN t ELSE Normalized(Significant(t))

DecimalTuple(text) ==
    LET parts == Split(Unsigned(Strip(text)), ".")
        frac  == IF Len(parts) = 2 THEN parts[2] ELSE <<>>
    IN  [digits |-> Len(Normalized(parts[1] \o frac)), decimals |-> Len(frac)]

\* Lines 41-44: condecimal(max_digits=2, decimal_places=1). The value is
\* turned into a Decimal from its text; then at most 2 digits in all, at most
\* 1 after the point and at most 2 - 1 before it.
condecimal(v) ==
    /\ FloatParses(v.text)
    /\ LET t      == DecimalTuple(v.text)
           digits == IF t.decimals > t.digits THEN t.decimals ELSE t.digits
       IN  /\ digits <= 2
           /\ t.decimals <= 1
           /\ digits - t.decimals <= 1

\* Lines 28-44: the fields declared Field(...) and those declared Field(None).
RequiredCourseFields ==
    {"Section", "Pilote", "Date", "Circuit", "Note", "Meilleur_Tour", "Tours",
     "Humidite"}
OptionalCourseFields == {"Kart", "Ecart"}

\* Lines 23-44: CourseDeKarting(**data).
CourseDeKarting(data) ==
    IF ~(RequiredCourseFields \subseteq DOMAIN data) THEN ValidationError
    ELSE IF CircuitDeKarting(data.Circuit) = ValidationError THEN ValidationError
    ELSE IF ~condecimal(data.Humidite) THEN ValidationError
    ELSE [kind |-> "CourseDeKarting",
          fields |-> [k \in RequiredCourseFields \cup OptionalCourseFields |->
                        IF k = "Circuit" THEN CircuitDeKarting(data.Circuit)
                        ELSE IF k \in DOMAIN data THEN data[k]
                        ELSE None]]

\* A value as the constructor is handed it: its Python type and its str().
Value(kind, text) == [kind |-> kind, text |-> text]

circuit_valide ==
    [Nom_Circuit |-> "RKC Cormeilles", Configuration_Piste |-> "Standard",
     Longueur |-> "1000m", Adresse |-> "D915, Cormeilles-en-Vexin"]

\* Dictionaries for CircuitDeKarting: any of the four fields left out.
CircuitDicts == { Given(circuit_valide, S) : S \in SUBSET CircuitFields }

HumiditeValues ==
    { Value("float", <<"0", ".", "3">>), Value("float", <<"3", ".", "0">>),
      Value("float", <<"4", "5", ".", "5">>), Value("float", <<"0", ".", "2", "5">>),
      Value("float", <<"1", "0", ".", "0">>), Value("int", <<"7">>),
      Value("int", <<"4", "5">>), Value("str", <<"0", ".", "3">>),
      Value("str", <<"t", "r", "o", "p", "_", "h", "u", "m", "i", "d", "e">>) }

donnees_course_valides ==
    [Section |-> 3, Pilote |-> "Tony", Date |-> "2025-11-01", Kart |-> Some(14),
     Note |-> 2, Meilleur_Tour |-> "1:06.065", Ecart |-> None, Tours |-> 0,
     Humidite |-> Value("float", <<"0", ".", "3">>), Circuit |-> circuit_valide]

\* Dictionaries for CourseDeKarting: the valid one with another Humidite,
\* another nested circuit, and Kart and Ecart given or left out.
CourseDicts ==
    { Given([[donnees_course_valides EXCEPT !.Humidite = h] EXCEPT !.Circuit = c],
            RequiredCourseFields \cup S) :
        h \in HumiditeValues, c \in CircuitDicts, S \in SUBSET OptionalCourseFields }

SchemaCalls ==
    { [fn |-> "CircuitDeKarting", data |-> d, step |-> "called",
       out |-> NoneValue] : d \in CircuitDicts }
    \cup { [fn |-> "CourseDeKarting", data |-> d, step |-> "called",
            out |-> NoneValue] : d \in CourseDicts }

InitSchema == NoRequests /\ call \in SchemaCalls

ConstructCircuit ==
    /\ call.fn = "CircuitDeKarting"
    /\ call.step = "called"
    /\ call' = [call EXCEPT !.step = "returned", !.out = CircuitDeKarting(call.data)]
    /\ OnlyCall

ConstructCourse ==
    /\ call.fn = "CourseDeKarting"
    /\ call.step = "called"
    /\ call' = [call EXCEPT !.step = "returned", !.out = CourseDeKarting(call.data)]
    /\ OnlyCall

NextSchema == ConstructCircuit \/ ConstructCourse

SpecSchema == InitSchema /\ [][NextSchema]_vars

\* The value is a number (a float or an int), or a text that writes none.
Numeric(v) == v.kind \in {"float", "int"}
NotNumeric(v) == v.kind = "str" /\ ~FloatParses(v.text)

\* C21: CircuitDeKarting is constructed when all four fields are given and
\* ends in a validation error when one is missing; CourseDeKarting is
\* constructed for a complete row with a valid nested circuit and a numeric
\* Humidite, and ends in a validation error when Humidite is not numeric.
C21_SchemaValidation ==
    /\ (call.fn = "CircuitDeKarting" /\ call.step = "returned") =>
          /\ CircuitFields \subseteq DOMAIN call.data
                => call.out.kind = "CircuitDeKarting"
          /\ ~(CircuitFields \subseteq DOMAIN call.data)
                => call.out = ValidationError
    /\ (/\ call.fn = "CourseDeKarting"
        /\ call.step = "returned"
        /\ CircuitFields \subseteq DOMAIN call.data.Circuit) =>
          /\ Numeric(call.data.Humidite) => call.out.kind = "CourseDeKarting"
          /\ NotNumeric(call.data.Humidite) => call.out = ValidationError

-----------------------------------------------------------------------------
(* api_client.py: get_courses_by_pilot, paging through GET /courses *)

\* api_client.py line 169 and api.py line 163: the page size.
limit == 100

\* The most requests one call of get_courses_by_pilot is followed for.
MaxRequests == 3

\* The rows of a table in the order SQLite returns them, by id. No handler
\* deletes a row and SQLite numbers them from 1, so the ids of n rows are 1..n.
Ordered(table) ==
    [i \in 1..Cardinality(table) |-> CHOOSE c \in table : c.id = i]

\* api.py lines 162-170: select(Course).offset(offset).limit(limit).all()
read_courses(offset, page) ==
    LET rows == Ordered(courses)
        from == IF offset < Len(rows) THEN offset + 1 ELSE Len(rows) + 1
        to   == IF offset + page < Len(rows) THEN offset + page ELSE Len(rows)
    IN  SubSeq(rows, from, to)

\* api_client.py lines 86-104: GET /courses?skip=..&limit=..; read_courses
\* declares offset and limit, so skip is no parameter of it and offset keeps
\* its default.
get_courses(skip, page) == read_courses(0, page)

\* str.lower() of the pilot names in use.
lower(name) ==
    CASE name \in {"Ann", "ANN", "ann"} -> "ann"
      [] name \in {"Bob", "bob"} -> "bob"
      [] OTHER -> name

\* The pilots of stored courses, repeated in this order, and the numbers of
\* stored courses.
PilotPatterns == { <<"Ann">>, <<"Ann", "Bob">>, <<"Bob", "ANN", "Ann">> }
StoreSizes == {0, 1, 2, 3, 99, 100, 101, 150, 200, 201}

\* A courses table of n rows as imports leave it: one Course per Section.
PagedStore(n, pattern) ==
    { [id |-> i, Section |-> i, Pilote |-> pattern[((i - 1) % Len(pattern)) + 1],
       Date |-> "2025-11-04", Kart |-> 7, Note |-> 3,
       Meilleur_Tour |-> "1:30.500", Humidite |-> 455, circuit_id |-> 1] :
      i \in 1..n }

InitPaged ==
    /\ circuits = { PlaceholderCircuit({}, CoerceCourseRow(BaseCourseRow)) }
    /\ \E n \in StoreSizes, pattern \in PilotPatterns :
          courses = PagedStore(n, pattern)
    /\ pc = "idle"
    /\ op = "none"
    /\ file = NoFile
    /\ index = 0
    /\ updated_count = 0
    /\ created_count = 0
    /\ circuits_uniques = {}
    /\ response = NoResponse
    /\ printed = <<>>
    /\ pre = [circuits |-> {}, courses |-> {}]
    /\ first = NoFirst
    /\ sessions = NoSessions
    /\ \E name \in {"Ann", "ann", "Bob", "Zoe"} :
          call = [fn |-> "get_courses_by_pilot", pilot_name |-> name,
                  step |-> "loop", all_courses |-> <<>>, skip |-> 0,
                  requests |-> 0]

\* api_client.py lines 170-176: one turn of the while loop.
PilotPage ==
    /\ call.fn = "get_courses_by_pilot"
    /\ call.step = "loop"
    /\ call.requests < MaxRequests
    /\ LET page     == get_courses(call.skip, limit)
           filtered == SelectSeq(page, LAMBDA course :
                          lower(course.Pilote) = lower(call.pilot_name))
       IN  call' =
             IF page = <<>>
             THEN [call EXCEPT !.step = "returned", !.requests = @ + 1]
             ELSE IF Len(page) < limit
             THEN [call EXCEPT !.step = "returned", !.requests = @ + 1,
                               !.all_courses = @ \o filtered]
             ELSE [call EXCEPT !.requests = @ + 1, !.skip = @ + limit,
                               !.all_courses = @ \o filtered]
    /\ OnlyCall

NextPaged == PilotPage

SpecPaged == InitPaged /\ [][NextPaged]_vars

\* The client runs on: a request that can be sent is sent.
SpecPagedFair == SpecPaged /\ WF_vars(NextPaged)

\* The call has returned each stored Course of the pilot exactly once.
EachOnce ==
    /\ \A i \in 1..Len(call.all_courses) :
          /\ call.all_courses[i] \in courses
          /\ lower(call.all_courses[i].Pilote) = lower(call.pilot_name)
    /\ \A c \in courses :
          lower(c.Pilote) = lower(call.pilot_name) =>
             Cardinality({ i \in 1..Len(call.all_courses) :
                              call.all_courses[i] = c }) = 1

-----------------------------------------------------------------------------
(* Courses files under the header names of the documentation *)

\* The names a header gives the two circuit columns.
CircuitHeaders == {"Nom_Circuit", "Circuit", " Circuit ", "CIRCUIT", "circuit"}
PisteHeaders == {"Configuration_Piste", "Piste", " Piste ", "piste"}

\* Rows of two circuits and two pilots.
HeaderRows ==
    { BaseCourseRow,
      [BaseCourseRow EXCEPT !.Configuration_Piste = "Long", !.Note = "4"],
      [BaseCourseRow EXCEPT !.Pilote = "Bob"] }

\* The row r of a file whose header names the circuit columns hc and hp.
UnderHeader(r, hc, hp) ==
    [k \in PreparedColumns |-> r[k]]
        @@ (hc :> r.Nom_Circuit) @@ (hp :> r.Configuration_Piste)

HeaderedFiles ==
    { [filename |-> GoodName, content |-> "csv",
       rows |-> [i \in 1..Len(rs) |-> UnderHeader(rs[i], hc, hp)]] :
        rs \in SeqsUpTo(HeaderRows, MaxRows) \ {<<>>},
        hc \in CircuitHeaders, hp \in PisteHeaders }

\* PUT /courses/import with such a file.
StartHeadered ==
    \E f \in HeaderedFiles :
        /\ pc = "idle"
        /\ Begin("courses", f)
        /\ first' = NoFirst

NextHeaders ==
    \/ StartHeadered
    \/ CoursesRow
    \/ Return
    \/ Close

SpecHeaders == Init /\ [][NextHeaders]_vars

\* The name is Circuit (or Piste) in some letter case, blanks around it or not.
IsCircuitName(h) == h \in {"Circuit", " Circuit ", "CIRCUIT", "circuit", " circuit "}
IsPisteName(h) == h \in {"Piste", " Piste ", "piste"}

\* The rows of the file written under Nom_Circuit and Configuration_Piste.
Canonical(r) ==
    LET hc == CHOOSE k \in DOMAIN r : k = "Nom_Circuit" \/ IsCircuitName(k)
        hp == CHOOSE k \in DOMAIN r : k = "Configuration_Piste" \/ IsPisteName(k)
    IN  [k \in PreparedColumns |-> r[k]]
            @@ [Nom_Circuit |-> r[hc], Configuration_Piste |-> r[hp]]

\* The tables after the rows of df have gone through the loop, one by one,
\* with the numbers of rows counted as created and updated and of rows that
\* raised.
RECURSIVE Imported(_, _, _, _)
Imported(circs, crs, cache, df) ==
    IF df = <<>>
    THEN [circuits |-> circs, courses |-> crs, created |-> 0, updated |-> 0,
          raised |-> 0]
    ELSE LET it   == CourseIteration(circs, crs, cache, Head(df), 0, 0)
             rest == Imported(it.circuits, it.courses, it.cache, Tail(df))
         IN  [rest EXCEPT !.created = @ + it.created,
                          !.updated = @ + it.updated,
                          !.raised = @ + (IF it.raised THEN 1 ELSE 0)]

\* C23: a courses file whose header names the circuit columns Circuit and
\* Piste, in any letter case and with blanks around, leaves the tables as
\* the same rows under Nom_Circuit and Configuration_Piste leave them.
C23_DocumentedHeaders ==
    (pc = "done" /\ op = "courses" /\ response.status = 200) =>
        LET df == [i \in 1..Len(file.rows) |-> CoerceCourseRow(Canonical(file.rows[i]))]
            as == Imported(pre.circuits, pre.courses, {}, df)
        IN  circuits = as.circuits /\ courses = as.courses

-----------------------------------------------------------------------------
(* Courses files with a text that is no number in a numeric column *)

\* Two valid rows, and rows with such a text in Kart, Note or Humidite.
MalformedRows ==
    { BaseCourseRow,
      [BaseCourseRow EXCEPT !.Pilote = "Bob", !.Kart = ""],
      [BaseCourseRow EXCEPT !.Section = "2", !.Kart = "x"],
      [BaseCourseRow EXCEPT !.Section = "2", !.Note = "x"],
      [BaseCourseRow EXCEPT !.Section = "2", !.Humidite = "x"] }

\* PUT /courses/import with a file of these rows.
StartMalformed ==
    \E f \in Files(MalformedRows) :
        /\ pc = "idle"
        /\ Begin("courses", f)
        /\ first' = NoFirst

NextMalformed ==
    \/ StartMalformed
    \/ CoursesRow
    \/ Return
    \/ Close

SpecMalformed == Init /\ [][NextMalformed]_vars

\* The row holds a text that is no number in Kart, Note or Humidite.
MalformedValue(r) ==
    ~IntCoercible(r.Kart) \/ ~IntCoercible(r.Note) \/ ~FloatCoercible(r.Humidite)

\* C24: when exactly one row of a courses file holds a text that is no number
\* in Kart, Note or Humidite, the call still answers with its counts, and
\* every other row of the file has its Course stored.
C24_MalformedValueSparesSiblings ==
    (/\ pc = "done"
     /\ op = "courses"
     /\ EndsWith(file.filename, CsvSuffix)
     /\ Cardinality({ i \in 1..Len(file.rows) : MalformedValue(file.rows[i]) }) = 1) =>
        /\ response.status = 200
        /\ \A i \in 1..Len(file.rows) :
              ~MalformedValue(file.rows[i]) =>
                 \E c \in courses :
                    /\ SameCourseKey(c, CoerceCourseRow(file.rows[i]))
                    /\ c.Note = CoerceCourseRow(file.rows[i]).Note

-----------------------------------------------------------------------------
(* Courses files with rows that share a key *)

\* Three rows of one key (the last with a blank Meilleur_Tour) and one of
\* another pilot.
BatchRows ==
    { BaseCourseRow,
      [BaseCourseRow EXCEPT !.Configuration_Piste = "Long",
                            !.Meilleur_Tour = "45.250", !.Kart = "",
                            !.Note = "4", !.Humidite = "0.3"],
      [BaseCourseRow EXCEPT !.Meilleur_Tour = ""],
      [BaseCourseRow EXCEPT !.Pilote = "Bob"] }

\* PUT /courses/import with a file of these rows.
StartBatch ==
    \E f \in Files(BatchRows) :
        /\ pc = "idle"
        /\ Begin("courses", f)
        /\ first' = NoFirst

NextBatch ==
    \/ StartBatch
    \/ CoursesRow
    \/ Return
    \/ Close

SpecBatch == Init /\ [][NextBatch]_vars

-----------------------------------------------------------------------------
(* Courses files with a blank, a zero and a negative Kart *)

\* Rows of one pilot: a kart number, no kart, and the karts 0 and -1.
KartRows ==
    { [BaseCourseRow EXCEPT !.Section = s, !.Kart = k] :
        s \in {"1", "2"}, k \in {"7", "", "0", "-1"} }

\* PUT /courses/import with a file of these rows.
StartKarts ==
    \E f \in Files(KartRows) :
        /\ pc = "idle"
        /\ Begin("courses", f)
        /\ first' = NoFirst

NextKarts ==
    \/ StartKarts
    \/ CoursesRow
    \/ Return
    \/ Close

SpecKarts == Init /\ [][NextKarts]_vars

-----------------------------------------------------------------------------
(* app.py: the dashboard's filters by pilot, circuit and date *)

\* Rows of the loaded table; a blank Pilote or Circuit is NaN, a blank or
\* unreadable Date is NaT.
DashboardRows ==
    [Pilote : {"Ann", "Bob", NaN}, Circuit : {"Moissy", NaN},
     Date : {"2025-11-04", NaT}]

\* df[col].dropna().unique(): the values of a column, the missing ones left out.
Options(df, col) == { df[i][col] : i \in 1..Len(df) } \ {NaN, NaT}

\* d.strftime('%d/%m/%Y') and pd.to_datetime(text, format='%d/%m/%Y').
strftime(d) == CHOOSE t \in DOMAIN DateText : DateText[t] = d
to_datetime(t) == DateText[t]

\* Series.isin(values): a missing value is in no list that does not hold it.
isin(v, values) == v \notin {NaN, NaT} /\ v \in values

\* Lines 84-98: date_select_dt and the three isin conditions.
df_filtered(df, pilote_select, circuit_select, date_select) ==
    LET date_select_dt == { to_datetime(t) : t \in date_select }
        keep(r) == /\ isin(r.Pilote, pilote_select)
                   /\ isin(r.Circuit, circuit_select)
                   /\ isin(r.Date, date_select_dt)
    IN  SelectSeq(df, keep)

\* Lines 65-87: the multiselects offer the values present in the table and
\* start with all of them selected; the user may unselect some.
InitDashboard ==
    /\ NoRequests
    /\ \E df \in SeqsUpTo(DashboardRows, MaxDf) :
       \E ps \in SUBSET Options(df, "Pilote"), cs \in SUBSET Options(df, "Circuit"),
          ds \in SUBSET Options(df, "Date") :
          call = [fn |-> "df_filtered", df |-> df, pilote_select |-> ps,
                  circuit_select |-> cs,
                  date_select |-> { strftime(d) : d \in ds },
                  step |-> "called", out |-> <<>>]

\* One run of the script over the loaded table and the selections.
FilterDashboard ==
    /\ call.fn = "df_filtered"
    /\ call.step = "called"
    /\ call' = [call EXCEPT
          !.step = "returned",
          !.out = df_filtered(call.df, call.pilote_select, call.circuit_select,
                              call.date_select)]
    /\ OnlyCall

NextDashboard == FilterDashboard

SpecDashboard == InitDashboard /\ [][NextDashboard]_vars

\* Every value the column offers is selected.
AllSelected(col) ==
    CASE col = "Pilote" -> call.pilote_select = Options(call.df, "Pilote")
      [] col = "Circuit" -> call.circuit_select = Options(call.df, "Circuit")
      [] col = "Date" ->
            { to_datetime(t) : t \in call.date_select } = Options(call.df, "Date")

\* The row passes the filter of the column: its value is selected.
Selected(r, col) ==
    CASE col = "Pilote" -> r.Pilote \in call.pilote_select
      [] col = "Circuit" -> r.Circuit \in call.circuit_select
      [] col = "Date" -> r.Date \in { to_datetime(t) : t \in call.date_select }

\* C28: when every value a column offers is selected, the filter of that
\* column keeps every row, those with no value in the column included: the
\* rows the other two filters pass are all in the filtered table.
C28_AllSelectedKeepsMissing ==
    (call.fn = "df_filtered" /\ call.step = "returned") =>
        \A col \in {"Pilote", "Circuit", "Date"} :
           AllSelected(col) =>
              \A i \in 1..Len(call.df) :
                 (\A other \in {"Pilote", "Circuit", "Date"} \ {col} :
                     Selected(call.df[i], other)) =>
                    \E j \in 1..Len(call.out) : call.out[j] = call.df[i]

-----------------------------------------------------------------------------
(* Properties *)

\* The tables a handler writes its counted entities to.
Counted(o, store) == IF o = "courses" THEN store.courses ELSE store.circuits

Store == [circuits |-> circuits, courses |-> courses]

\* A CSV row of a courses file that can be stored: numeric cells numeric, the
\* key cells and the required texts present, the date in DD/MM/YYYY.
ValidCourseCells(r) ==
    /\ CourseRowCoercible(r)
    /\ r.Pilote # ""
    /\ r.Date \in DOMAIN DateText
    /\ r.Meilleur_Tour # ""
    /\ r.Nom_Circuit # ""
    /\ r.Configuration_Piste # ""

\* (Section, Pilote, Date) of a valid CSV row; a blank Section counts as 0.
CellsKey(r) == <<IntOf(r.Section), r.Pilote, r.Date>>

ValidDistinctRows(rows) ==
    /\ \A i \in 1..Len(rows) : ValidCourseCells(rows[i])
    /\ \A i, j \in 1..Len(rows) : i # j => CellsKey(rows[i]) # CellsKey(rows[j])

\* C1: a courses file of N valid rows with pairwise distinct (Section, Pilote,
\* Date), imported into tables holding none of its keys and then imported
\* again, answers created N / updated 0 the first time and created 0 /
\* updated N the second time, and the second run leaves the Course table (its
\* size and every field of every row) as the first run left it.
C1_IdempotentReimport ==
    (pc = "done" /\ first.set /\ first.fresh /\ ValidDistinctRows(file.rows)) =>
        /\ first.crees = Len(file.rows)
        /\ first.mis_a_jour = 0
        /\ response.status = 200
        /\ response.crees = 0
        /\ response.mis_a_jour = Len(file.rows)
        /\ Cardinality(courses) = Cardinality(pre.courses)
        /\ courses = pre.courses

C1_Witness ==
    /\ pc = "done"
    /\ first.set
    /\ first.fresh
    /\ ValidDistinctRows(file.rows)
    /\ Len(file.rows) >= 2
    /\ response.mis_a_jour = Len(file.rows)

\* C2: whatever courses and circuits files have been imported one after
\* another, the Course table holds at most one row per (Section, Pilote, Date).
C2_CourseKeyUnique ==
    \A c, d \in courses : SameCourseKey(c, d) => c = d

C2_Witness ==
    /\ pc = "done"
    /\ op = "courses"
    /\ response.status = 200
    /\ Len(file.rows) >= 2
    /\ SameCourseKey(Df(op, file)[1], Df(op, file)[2])
    /\ response.crees = 1
    /\ response.mis_a_jour = 1
    /\ courses # {}

\* C3: whatever courses and circuits files have been imported one after
\* another, the Circuit table holds at most one row per (Nom_Circuit,
\* Configuration_Piste).
C3_CircuitKeyUnique ==
    \A c, d \in circuits : SameCircuitKey(c, d) => c = d

C3_Witness ==
    /\ pc = "done"
    /\ op = "circuits"
    /\ response.status = 200
    /\ response.mis_a_jour >= 1
    /\ Cardinality(circuits) >= 2
    /\ courses # {}

\* The row the loop is about to process, and the one it processed last.
NextRow == Df(op, file)[index + 1]
LastRow == Df(op, file)[index]

InLoop(o) == pc = "rows" /\ op = o /\ index < Len(Df(op, file))

C7_FaithfulCounts ==
    (pc = "done" /\ response.status = 200) =>
        /\ response.crees =
              Cardinality(Counted(op, Store)) - Cardinality(Counted(op, pre))
        /\ response.crees + response.mis_a_jour = Len(file.rows) - Len(printed)

\* C8: a courses row that fails leaves both tables exactly as they were
\* before the row.
C8_RowAtomicity ==
    [][ (pc = "rows" /\ op = "courses" /\ printed' # printed) =>
          (circuits' = circuits /\ courses' = courses) ]_vars

\* C9: no step changes the circuit_id of a stored Course (and no Course is
\* removed).
C9_CircuitIdWriteOnce ==
    [][ \A c \in courses :
           \E d \in courses' : d.id = c.id /\ d.circuit_id = c.circuit_id ]_vars

\* A courses row has just updated a Course that is stored on another circuit
\* than the one the row names.
C9_Witness ==
    /\ pc = "rows"
    /\ op = "courses"
    /\ index = 1
    /\ updated_count = 1
    /\ printed = <<>>
    /\ \E c \in courses : \E k \in circuits :
          /\ SameCourseKey(c, LastRow)
          /\ c.Meilleur_Tour = LastRow.Meilleur_Tour
          /\ k.id = c.circuit_id
          /\ k.Configuration_Piste # LastRow.Configuration_Piste

\* The upload is one the handler must reject as a whole: a file name that does
\* not end in .csv, bytes that are no CSV table, or (courses) a numeric column
\* holding a text that is no number.
StructurallyBad(o, f) ==
    \/ f.filename \in BadNames
    \/ f.content # "csv"
    \/ /\ o = "courses"
       /\ \E i \in 1..Len(f.rows) :
             \/ ~IntCoercible(f.rows[i].Section)
             \/ ~IntCoercible(f.rows[i].Kart)
             \/ ~IntCoercible(f.rows[i].Note)
             \/ ~FloatCoercible(f.rows[i].Humidite)

\* C10: an import that is rejected as a whole answers with one failure (no
\* counts, no row error) and leaves both tables as they were before the call.
C10_StructuralFailureNoEffect ==
    (pc = "done" /\ op \in {"courses", "circuits"} /\ StructurallyBad(op, file)) =>
        /\ response.status \in {400, 422, 500}
        /\ printed = <<>>
        /\ circuits = pre.circuits
        /\ courses = pre.courses

\* An upload with data rows was rejected while the tables held entities.
C10_Witness ==
    /\ pc = "done"
    /\ response.status \in {400, 422}
    /\ Len(file.rows) >= 1
    /\ courses # {}
    /\ circuits # {}

\* C4: once a Circuit with some (Nom_Circuit, Configuration_Piste) is
\* committed, adding a second Circuit object with the same pair directly to
\* the session and committing fails, and the table does not hold the second.
C4_StoreRejectsDuplicate ==
    (/\ pc = "done"
     /\ op = "add"
     /\ \E c \in pre.circuits : SameCircuitKey(c, file.rows[1])) =>
        /\ ~response.committed
        /\ circuits = pre.circuits

\* The row errors a response carries.
ReturnedErrors(resp) ==
    IF "errors" \in DOMAIN resp THEN resp.errors ELSE <<>>

\* A natural-key cell that cannot be used: a blank pilot, a Section that is
\* no number, a date that is not DD/MM/YYYY.
BadKeyCell(r) ==
    \/ r.Pilote = ""
    \/ ~IntCoercible(r.Section)
    \/ r.Date \notin DOMAIN DateText

\* Row bad is the only row of rows with a bad key cell; the others are valid.
OneBadKeyRow(rows, bad) ==
    /\ bad \in 1..Len(rows)
    /\ BadKeyCell(rows[bad])
    /\ \A i \in 1..Len(rows) : i # bad => ValidCourseCells(rows[i])

\* C6: a courses file of ten rows, nine valid and one with an unusable
\* Pilote, Section or Date, is answered with created + updated = 9 and exactly
\* one row error, which names the source line of the bad row (row i of the
\* table is line i + 1 of the file).
C6_BadKeyRowIsolated ==
    \A bad \in 1..TenRows :
        (/\ pc = "done"
         /\ op = "courses"
         /\ Len(file.rows) = TenRows
         /\ OneBadKeyRow(file.rows, bad)) =>
            /\ response.status = 200
            /\ response.crees + response.mis_a_jour = TenRows - 1
            /\ ReturnedErrors(response) = <<bad + 1>>

\* The row holds every cell its commit needs.
Complete(row) ==
    /\ row.Pilote # NaN
    /\ row.Date # NaT
    /\ row.Meilleur_Tour # NaN
    /\ row.Nom_Circuit # NaN
    /\ row.Configuration_Piste # NaN

\* After the step, one Course is stored for the key of row, with its values.
StoredOnceAs(row) ==
    /\ Cardinality({ c \in courses' : SameCourseKey(c, row) }) = 1
    /\ \A c \in courses' :
          SameCourseKey(c, row) =>
             /\ c.Kart = row.Kart
             /\ c.Note = row.Note
             /\ c.Meilleur_Tour = row.Meilleur_Tour
             /\ c.Humidite = row.Humidite

C26_StoredFieldsMirrorRow ==
    [][ (InLoop("courses") /\ printed' = printed) =>
          /\ \E c \in courses' : SameCourseKey(c, NextRow)
          /\ \A c \in courses' :
                SameCourseKey(c, NextRow) =>
                   /\ c.Kart = NextRow.Kart
                   /\ c.Note = NextRow.Note
                   /\ c.Meilleur_Tour = NextRow.Meilleur_Tour
                   /\ c.Humidite = NextRow.Humidite
                   /\ {"Ecart", "Tours"} \subseteq DOMAIN c
                   /\ c.Ecart = NextRow.Ecart
                   /\ c.Tours = NextRow.Tours ]_vars

\* C27: after a courses row is committed, its Course is stored without a
\* Kart when the Kart cell is blank (not with 0 and not with -1), and with
\* exactly the integer of the cell otherwise.
C27_OptionalKart ==
    [][ (InLoop("courses") /\ printed' = printed) =>
          \A c \in courses' :
             SameCourseKey(c, NextRow) =>
                IF file.rows[index + 1].Kart = ""
                THEN c.Kart = None
                ELSE c.Kart = Some(IntText[file.rows[index + 1].Kart]) ]_vars

\* A Circuit as upsert_courses first stores it.
IsPlaceholder(c) == c.Longueur = "N/A" /\ c.Adresse = "N/A"

\* C29: a courses row creates at most one Circuit, a placeholder, and only
\* when no Circuit of its (Nom_Circuit, Configuration_Piste) is stored; a
\* later circuits row of the same pair writes its Longueur and Adresse into
\* the placeholder, which keeps its id: no Circuit is added and the Courses
\* that referred to the placeholder still refer to it.
C29_PlaceholderThenCircuit ==
    [][ /\ InLoop("courses") =>
              /\ Cardinality(circuits' \ circuits) <= 1
              /\ \A k \in circuits' \ circuits :
                    /\ IsPlaceholder(k)
                    /\ \A c \in circuits : ~SameCircuitKey(c, k)
        /\ InLoop("circuits") =>
              \A c \in circuits :
                 (IsPlaceholder(c) /\ SameCircuitKey(c, NextRow)) =>
                    /\ Cardinality(circuits') = Cardinality(circuits)
                    /\ \E d \in circuits' :
                          /\ d.id = c.id
                          /\ SameCircuitKey(d, c)
                          /\ d.Longueur = NextRow.Longueur
                          /\ d.Adresse = NextRow.Adresse
                    /\ \A x \in courses' :
                          x.circuit_id = c.id =>
                             \E d \in circuits' : d.id = x.circuit_id ]_vars

\* DataFrame.to_csv: the text a value is written as; None is an empty cell.
to_csv(v) ==
    IF v \in {None, NaN, NaT} THEN ""
    ELSE IF v \in Seq(Int) THEN CHOOSE t \in DOMAIN IntText : IntText[t] = v[1]
    ELSE v

\* The data rows of the CSV of a course export, in the order of the ids: the
\* cells of the exported columns, numbers written as texts.
ExportedCsv(rows) ==
    LET n      == Cardinality(rows)
        at(i)  == CHOOSE r \in rows :
                     Cardinality({ q \in rows : q.course < r.course }) = i - 1
        of(r)  == CHOOSE c \in courses : c.id = r.course
        cell(r, col) ==
            CASE col \in {"Nom_Circuit", "Configuration_Piste"} -> r[col]
              [] col \in {"Section", "Note"} ->
                    CHOOSE t \in DOMAIN IntText : IntText[t] = of(r)[col]
              [] col = "Humidite" ->
                    CHOOSE t \in DOMAIN FloatText : FloatText[t] = of(r)[col]
              [] col \in DOMAIN of(r) -> to_csv(of(r)[col])
              [] OTHER -> ""
    IN  [i \in 1..n |->
           [col \in { ordered_columns[j] : j \in 1..Len(ordered_columns) } |->
               cell(at(i), col)]]

\* C30: when Courses are stored, the course export answers with a CSV, and
\* that CSV given to upsert_courses on the same store has every row counted
\* as updated (none created, none failing, as many updated as Courses are
\* stored) and leaves the Courses and the Circuits as they were.
C30_ExportImportRoundTrip ==
    (/\ pc = "done"
     /\ op = "get"
     /\ call.path = <<"courses", "export">>
     /\ courses # {}) =>
        /\ response.status = 200
        /\ LET csv == ExportedCsv(response.rows)
               df  == [i \in 1..Len(csv) |-> CoerceCourseRow(csv[i])]
               re  == Imported(circuits, courses, {}, df)
           IN  /\ re.created = 0
               /\ re.updated = Cardinality(courses)
               /\ re.raised = 0
               /\ re.courses = courses
               /\ re.circuits = circuits

=============================================================================
